---------------------------- MODULE Spec2Model ----------------------------
(***************************************************************************)
(* A model of the flatten-image application's dewarping engine             *)
(* (src/flatten-image/app/dewarper.{h,cpp}): the Dewarper object, its      *)
(* configure operations (init, update_config), its per-frame operation     *)
(* (process) and the four lookup-table builders.                           *)
(*                                                                         *)
(* The engine computes in IEEE single precision.  The model computes in    *)
(* fixed point: a float is an integer number of 1/FScale units, with three *)
(* extra codes for +infinity, -infinity and NaN that the arithmetic        *)
(* operators propagate the way IEEE arithmetic does.                       *)
(***************************************************************************)
EXTENDS Integers, Sequences, FiniteSets, TLC

(***************************************************************************)
(* float: the fixed-point stand-in.                                        *)
(***************************************************************************)
FScale == 1000

\* the largest finite magnitude
FMax == FScale * 1000000

FPosInf == FMax + 1

FNegInf == -(FMax + 1)

FNaN == FMax + 2

IsNaN(a) == a = FNaN

IsInf(a) == a = FPosInf \/ a = FNegInf

IsFinite(a) == a >= -FMax /\ a <= FMax

Abs(n) == IF n < 0 THEN -n ELSE n

Sgn(n) == IF n < 0 THEN -1 ELSE IF n > 0 THEN 1 ELSE 0

\* n / d rounded to the nearest integer, d > 0
RDiv[n \in Int, d \in Int] == Sgn(n) * ((Abs(n) + d \div 2) \div d)

\* a result outside the finite range overflows to an infinity
FNorm(v) == IF v > FMax THEN FPosInf ELSE IF v < -FMax THEN FNegInf ELSE v

\* static_cast<float>(unsigned)
FromInt(n) == n * FScale

FNeg[a \in Int] == IF IsNaN(a) THEN FNaN ELSE -a

FAdd[a \in Int, b \in Int] ==
    IF IsNaN(a) \/ IsNaN(b) THEN FNaN
    ELSE IF IsInf(a) /\ IsInf(b) THEN (IF a = b THEN a ELSE FNaN)
    ELSE IF IsInf(a) THEN a
    ELSE IF IsInf(b) THEN b
    ELSE FNorm(a + b)

FSub[a \in Int, b \in Int] == FAdd[a, FNeg[b]]

\* |a| * |b| / FScale for finite operands, by parts so that no intermediate
\* product leaves the machine integers; FMax + 1 when the product overflows
MulMag[A \in Int, B \in Int] ==
    LET qa == A \div FScale
        ra == A % FScale
        qb == B \div FScale
        rb == B % FScale
    IN  IF qa > 0 /\ qb > (FMax \div FScale) \div qa THEN FMax + 1
        ELSE qa * qb * FScale + qa * rb + ra * qb + RDiv[ra * rb, FScale]

FMul[a \in Int, b \in Int] ==
    IF IsNaN(a) \/ IsNaN(b) THEN FNaN
    ELSE IF IsInf(a) \/ IsInf(b)
         THEN (IF a = 0 \/ b = 0 THEN FNaN
               ELSE IF Sgn(a) * Sgn(b) > 0 THEN FPosInf ELSE FNegInf)
    ELSE FNorm(Sgn(a) * Sgn(b) * MulMag[Abs(a), Abs(b)])

\* |a| * FScale / |b| for finite operands, b # 0, by parts as MulMag
DivMag[A \in Int, B \in Int] ==
    LET q == A \div B
        r == A % B
    IN  IF q > FMax \div FScale THEN FMax + 1
        ELSE IF B <= 2 * (FMax \div FScale) THEN q * FScale + RDiv[r * FScale, B]
        ELSE q * FScale + RDiv[(r \div FScale) * FScale, B \div FScale]

FDiv[a \in Int, b \in Int] ==
    IF IsNaN(a) \/ IsNaN(b) THEN FNaN
    ELSE IF IsInf(a)
         THEN (IF IsInf(b) THEN FNaN
               ELSE IF Sgn(a) * (IF b < 0 THEN -1 ELSE 1) > 0 THEN FPosInf ELSE FNegInf)
    ELSE IF IsInf(b) THEN 0
    ELSE IF b = 0
         THEN (IF a = 0 THEN FNaN ELSE IF a > 0 THEN FPosInf ELSE FNegInf)
    ELSE FNorm(Sgn(a) * Sgn(b) * DivMag[Abs(a), Abs(b)])

\* a > b on floats: false as soon as one side is NaN
FGt(a, b) == ~IsNaN(a) /\ ~IsNaN(b) /\ a > b

ISqrtIter[n \in Int, lo \in Int, hi \in Int] ==
    IF hi - lo <= 1 THEN (IF n - lo * lo <= hi * hi - n THEN lo ELSE hi)
    ELSE LET mid == (lo + hi) \div 2
         IN  IF mid * mid <= n THEN ISqrtIter[n, mid, hi] ELSE ISqrtIter[n, lo, mid]

\* std::sqrt
FSqrt[a \in Int] ==
    IF IsNaN(a) \/ a < 0 THEN FNaN
    ELSE IF a = FPosInf THEN FPosInf
    ELSE IF a = 0 THEN 0
    ELSE IF a <= 2 * (FMax \div FScale) THEN ISqrtIter[a * FScale, 0, 46340]
    ELSE IF a <= 200 * (FMax \div FScale) THEN 10 * ISqrtIter[a * 10, 0, 46340]
    ELSE 100 * ISqrtIter[a \div 10, 0, 46340]

\* M_PI as a float, and the angles derived from it
PI_F == 3142

HalfPi == PI_F \div 2

TwoPi == 2 * PI_F

\* an angle brought into [-pi/2, pi/2] with the same sine
SinReduce[x \in Int] ==
    LET w == ((x + PI_F) % TwoPi) - PI_F
    IN  IF w > HalfPi THEN PI_F - w
        ELSE IF w < -HalfPi THEN -PI_F - w
        ELSE w

\* v brought into [lo, hi]
Clamp[v \in Int, lo \in Int, hi \in Int] == IF v > hi THEN hi ELSE IF v < lo THEN lo ELSE v

\* x - x^3/3! + x^5/5! - x^7/7! + x^9/9! on [-pi/2, pi/2]
SinSeries[x \in Int] ==
    LET x2 == RDiv[x * x, FScale]
        t3 == RDiv[x * x2, 6 * FScale]
        t5 == RDiv[t3 * x2, 20 * FScale]
        t7 == RDiv[t5 * x2, 42 * FScale]
        t9 == RDiv[t7 * x2, 72 * FScale]
    IN  Clamp[x - t3 + t5 - t7 + t9, -FScale, FScale]

\* std::sin
FSin[a \in Int] == IF ~IsFinite(a) THEN FNaN ELSE SinSeries[SinReduce[a]]

\* std::cos
FCos[a \in Int] == IF ~IsFinite(a) THEN FNaN ELSE SinSeries[SinReduce[a + HalfPi]]

\* the largest magnitude std::tan returns next to a pole
TanMax == 100000 * FScale

\* the quotient of a sine by a cosine, cut off at TanMax; at the float
\* nearest to pi/2 the tangent is large, finite and negative (the float lies
\* just beyond the pole)
TanOf[s \in Int, c \in Int] ==
    IF c = 0 THEN -Sgn(s) * TanMax ELSE Clamp[FDiv[s, c], -TanMax, TanMax]

\* std::tan
FTan[a \in Int] == IF ~IsFinite(a) THEN FNaN ELSE TanOf[FSin[a], FCos[a]]

AcosIter[z \in Int, lo \in Int, hi \in Int] ==
    IF hi - lo <= 1
    THEN (IF Abs(FCos[lo] - z) <= Abs(FCos[hi] - z) THEN lo ELSE hi)
    ELSE LET mid == (lo + hi) \div 2
         IN  IF FCos[mid] >= z THEN AcosIter[z, mid, hi] ELSE AcosIter[z, lo, mid]

\* std::acos; a quotient of a ray component by the ray's length never
\* exceeds 1 in IEEE arithmetic, so the rounding excess of the fixed point
\* is cut off
FAcos[z \in Int] ==
    IF ~IsFinite(z) THEN FNaN
    ELSE IF z >= FScale THEN 0
    ELSE IF z <= -FScale THEN PI_F
    ELSE IF z = 0 THEN HalfPi
    ELSE AcosIter[z, 0, PI_F]

\* std::atan2
FAtan2[y \in Int, x \in Int] ==
    IF IsNaN(y) \/ IsNaN(x) THEN FNaN
    ELSE IF IsInf(y) /\ IsInf(x)
         THEN Sgn(y) * (IF x > 0 THEN HalfPi \div 2 ELSE PI_F - HalfPi \div 2)
    ELSE IF IsInf(y) THEN Sgn(y) * HalfPi
    ELSE IF IsInf(x) THEN (IF x > 0 THEN 0 ELSE IF y < 0 THEN -PI_F ELSE PI_F)
    ELSE IF x = 0 /\ y = 0 THEN 0
    ELSE IF y = 0 THEN (IF x > 0 THEN 0 ELSE PI_F)
    ELSE IF x = 0 THEN Sgn(y) * HalfPi
    ELSE (IF y < 0 THEN -1 ELSE 1)
             * FAcos[FDiv[x, FSqrt[FAdd[FMul[x, x], FMul[y, y]]]]]

(***************************************************************************)
(* DewarperConfig and the quantities every builder derives from it.  A     *)
(* configuration is a record with the fields of struct DewarperConfig;     *)
(* the float fields hold fixed-point values, the unsigned ones naturals.   *)
(***************************************************************************)
Min(a, b) == IF a < b THEN a ELSE b

\* degrees to radians: deg * static_cast<float>(M_PI) / 180.0f
ToRad[deg \in Int] == FDiv[FMul[deg, PI_F], FromInt(180)]

cx(c) == FMul[c.center_x, FromInt(c.input_width)]

cy(c) == FMul[c.center_y, FromInt(c.input_height)]

fov_rad(c) == ToRad[c.input_fov]

radius(c) == FDiv[FromInt(Min(c.input_width, c.input_height)), FromInt(2)]

pan_rad(c) == ToRad[c.pan_angle]

tilt_rad(c) == ToRad[c.tilt_angle]

out_fov_rad(c) == ToRad[c.rectilinear_fov]

\* half the input field of view, the bound of the cull
HalfFov(c) == FDiv[fov_rad(c), FromInt(2)]

\* the value the culling builders store in both grids
Sentinel == <<FNeg[FromInt(1)], FNeg[FromInt(1)]>>

\* polar to cartesian in the fisheye image: the point at distance r and
\* angle phi from the centre <<cx, cy>>
Polar[r \in Int, phi \in Int, centre \in Seq(Int)] ==
    <<FAdd[centre[1], FMul[r, FCos[phi]]], FAdd[centre[2], FMul[r, FSin[phi]]]>>

\* equidistant projection of the direction (theta, phi) into the fisheye image
FishPoint(c, theta, phi) ==
    Polar[FMul[FDiv[theta, HalfFov(c)], radius(c)], phi, <<cx(c), cy(c)>>]

\* theta and phi of a unit ray: std::acos(ray_z), std::atan2(ray_y, ray_x)
RayAngles[ray \in Seq(Int)] == <<FAcos[ray[3]], FAtan2[ray[2], ray[1]]>>

\* the fisheye point of the direction <<theta, phi>>
FishPointOf(c, angles) == FishPoint(c, angles[1], angles[2])

\* the check against the whole field of view instead of half of it
FovCheckWhole(c, angles) ==
    IF FGt(angles[1], fov_rad(c)) THEN Sentinel ELSE FishPointOf(c, angles)

\* "if (theta > fov_rad / 2.0f)": the sentinel in both grids and continue,
\* otherwise the fisheye point
FovCheck(c, angles) ==
    IF FGt(angles[1], HalfFov(c)) THEN Sentinel ELSE FishPointOf(c, angles)

\* std::sqrt(x * x + y * y + z * z) of finite components.  A float holds the
\* square of any tangent; the fixed point does not, so the squares are taken
\* of the components divided by k and the root is multiplied by k
ScaledLen[ray \in Seq(Int), k \in Int] ==
    k * ISqrtIter[RDiv[ray[1], k] * RDiv[ray[1], k] + RDiv[ray[2], k] * RDiv[ray[2], k]
                      + RDiv[ray[3], k] * RDiv[ray[3], k],
                  0, 46340]

\* the largest magnitude among the components of a ray
MaxAbs[ray \in Seq(Int)] ==
    IF Abs(ray[1]) >= Abs(ray[2]) /\ Abs(ray[1]) >= Abs(ray[3]) THEN Abs(ray[1])
    ELSE IF Abs(ray[2]) >= Abs(ray[3]) THEN Abs(ray[2])
    ELSE Abs(ray[3])

\* the length of a ray
RayLen[ray \in Seq(Int)] ==
    IF IsNaN(ray[1]) \/ IsNaN(ray[2]) \/ IsNaN(ray[3]) THEN FNaN
    ELSE IF IsInf(ray[1]) \/ IsInf(ray[2]) \/ IsInf(ray[3]) THEN FPosInf
    ELSE ScaledLen[ray, MaxAbs[ray] \div 20000 + 1]

\* the components of a ray divided by len
Scaled[ray \in Seq(Int), len \in Int] ==
    <<FDiv[ray[1], len], FDiv[ray[2], len], FDiv[ray[3], len]>>

\* a ray scaled to unit length
Normalize[ray \in Seq(Int)] == Scaled[ray, RayLen[ray]]

\* the coordinate without the shift by 1 that centres it
NormCoordUnshifted(x, n) == FDiv[FMul[FromInt(2), FromInt(x)], FromInt(n)]

\* (2.0f * x / n) - 1.0f
NormCoord(x, n) == FSub[FDiv[FMul[FromInt(2), FromInt(x)], FromInt(n)], FromInt(1)]

(***************************************************************************)
(* build_equirectangular_map, one output pixel.                            *)
(***************************************************************************)
EquirectRay(c, x, y) ==
    LET longitude == FAdd[FMul[NormCoord(x, c.output_width), PI_F], pan_rad(c)]
        latitude  == FAdd[FDiv[FMul[NormCoord(y, c.output_height), PI_F], FromInt(2)],
                          tilt_rad(c)]
    IN  <<FMul[FCos[latitude], FSin[longitude]],
          FSin[latitude],
          FMul[FCos[latitude], FCos[longitude]]>>

\* theta, phi
EquirectAngles(c, x, y) == RayAngles[EquirectRay(c, x, y)]

\* the loop body with the field-of-view check of the other builders
EquirectPixelCulled(c, x, y) == FovCheck(c, EquirectAngles(c, x, y))

\* fish_x, fish_y and the two stores that end the loop body: no check
\* precedes them
EquirectPixel(c, x, y) == FishPointOf(c, EquirectAngles(c, x, y))

\* what one iteration of the equirectangular loop divides by: output_width,
\* output_height and fov_rad / 2
EquirectDivisors(c, x, y) ==
    {FromInt(c.output_width), FromInt(c.output_height), HalfFov(c)}

(***************************************************************************)
(* build_rectilinear_map, one output pixel.                                *)
(***************************************************************************)
focal(c) ==
    FDiv[FromInt(c.output_width),
         FMul[FromInt(2), FTan[FDiv[out_fov_rad(c), FromInt(2)]]]]

\* the pan rotation (around the Y axis) of a ray
PanRotate[ray \in Seq(Int), pan \in Int] ==
    <<FAdd[FMul[ray[1], FCos[pan]], FMul[ray[3], FSin[pan]]],
      ray[2],
      FAdd[FMul[FNeg[ray[1]], FSin[pan]], FMul[ray[3], FCos[pan]]]>>

\* the tilt rotation (around the X axis) of a ray
TiltRotate[ray \in Seq(Int), tilt \in Int] ==
    <<ray[1],
      FSub[FMul[ray[2], FCos[tilt]], FMul[ray[3], FSin[tilt]]],
      FAdd[FMul[ray[2], FSin[tilt]], FMul[ray[3], FCos[tilt]]]>>

\* the rotated ray before it is normalized
RectDirection(c, x, y) ==
    LET norm_x == FDiv[FSub[FromInt(x), FDiv[FromInt(c.output_width), FromInt(2)]],
                       focal(c)]
        norm_y == FDiv[FSub[FromInt(y), FDiv[FromInt(c.output_height), FromInt(2)]],
                       focal(c)]
    IN  TiltRotate[PanRotate[<<norm_x, norm_y, FromInt(1)>>, pan_rad(c)], tilt_rad(c)]

RectRay(c, x, y) == Normalize[RectDirection(c, x, y)]

\* theta, phi
RectAngles(c, x, y) == RayAngles[RectRay(c, x, y)]

\* what one iteration of the rectilinear loop divides by: the divisor of
\* focal, focal, ray_len and, past the field-of-view check, fov_rad / 2
RectDivisors(c, x, y) ==
    {FMul[FromInt(2), FTan[FDiv[out_fov_rad(c), FromInt(2)]]], focal(c),
     RayLen[RectDirection(c, x, y)]}
        \cup (IF FGt(RectAngles(c, x, y)[1], HalfFov(c)) THEN {} ELSE {HalfFov(c)})

\* the field-of-view check and the stores of either branch
RectPixel(c, x, y) == FovCheck(c, RectAngles(c, x, y))

(***************************************************************************)
(* build_cylindrical_map, one output pixel.                                *)
(***************************************************************************)
\* the ray on the cylinder before it is normalized
CylDirection(c, x, y) ==
    LET longitude == FAdd[FMul[NormCoord(x, c.output_width), PI_F], pan_rad(c)]
        vertical  == FAdd[FMul[NormCoord(y, c.output_height), HalfFov(c)], tilt_rad(c)]
    IN  <<FSin[longitude], FTan[vertical], FCos[longitude]>>

CylRay(c, x, y) == Normalize[CylDirection(c, x, y)]

\* theta, phi
CylAngles(c, x, y) == RayAngles[CylRay(c, x, y)]

\* what one iteration of the cylindrical loop divides by: output_width,
\* output_height, ray_len and, past the field-of-view check, fov_rad / 2
CylDivisors(c, x, y) ==
    {FromInt(c.output_width), FromInt(c.output_height), RayLen[CylDirection(c, x, y)]}
        \cup (IF FGt(CylAngles(c, x, y)[1], HalfFov(c)) THEN {} ELSE {HalfFov(c)})

\* the field-of-view check and the stores of either branch
CylPixel(c, x, y) == FovCheck(c, CylAngles(c, x, y))

(***************************************************************************)
(* build_fisheye_undistort_map, one output pixel.                          *)
(***************************************************************************)
\* 1e-8f, which is below the resolution of the fixed point
Epsilon == 0

f_out(c) == FMul[c.focal_length, c.scale]

\* x_out, y_out: the output pixel in normalized coordinates
NormOut(c, u_out, v_out) ==
    <<FDiv[FSub[FromInt(u_out), cx(c)], f_out(c)],
      FDiv[FSub[FromInt(v_out), cy(c)], f_out(c)]>>

\* r_out
ROut[p \in Seq(Int)] == FSqrt[FAdd[FMul[p[1], p[1]], FMul[p[2], p[2]]]]

\* theta_d = theta * (1 + k1 theta^2 + k2 theta^4 + k3 theta^6 + k4 theta^8),
\* k the coefficients <<k1, k2, k3, k4>>
ThetaD[theta \in Int, k \in Seq(Int)] ==
    LET theta2 == FMul[theta, theta]
        theta4 == FMul[theta2, theta2]
        theta6 == FMul[theta4, theta2]
        theta8 == FMul[theta6, theta2]
    IN  FMul[theta,
             FAdd[FAdd[FAdd[FAdd[FromInt(1), FMul[k[1], theta2]],
                            FMul[k[2], theta4]],
                       FMul[k[3], theta6]],
                  FMul[k[4], theta8]]]

\* scale_d
ScaleD[r_out \in Int, theta_d \in Int] ==
    IF FGt(r_out, Epsilon) THEN FDiv[theta_d, r_out] ELSE FromInt(1)

\* x_dist, y_dist
Distorted[p \in Seq(Int), scale_d \in Int] == <<FMul[p[1], scale_d], FMul[p[2], scale_d]>>

\* x_dist, y_dist of the normalized point p
Distort[p \in Seq(Int), k \in Seq(Int)] == Distorted[p, ScaleD[ROut[p], ThetaD[ROut[p], k]]]

\* u_in, v_in of a distorted point
ToInput[d \in Seq(Int), f_in \in Int, centre \in Seq(Int)] ==
    <<FAdd[FMul[f_in, d[1]], centre[1]], FAdd[FMul[f_in, d[2]], centre[2]]>>

\* u_in, v_in
UndistortPoint(c, u_out, v_out) ==
    ToInput[Distort[NormOut(c, u_out, v_out), <<c.k1, c.k2, c.k3, c.k4>>],
            c.focal_length, <<cx(c), cy(c)>>]

\* what one iteration of the undistortion loop divides by: f_out and, when
\* r_out > 1e-8f, r_out
UndistortDivisors(c, u_out, v_out) ==
    {f_out(c)}
        \cup (IF FGt(ROut[NormOut(c, u_out, v_out)], Epsilon)
              THEN {ROut[NormOut(c, u_out, v_out)]} ELSE {})

\* the loop body with u_in, v_in clamped into the input frame
UndistortPixelClamped(c, u_out, v_out) ==
    <<Clamp[UndistortPoint(c, u_out, v_out)[1], 0, FromInt(c.input_width)],
      Clamp[UndistortPoint(c, u_out, v_out)[2], 0, FromInt(c.input_height)]>>

\* the two stores that end the loop body
UndistortPixel(c, u_out, v_out) == UndistortPoint(c, u_out, v_out)

(***************************************************************************)
(* The inputs the model draws from.                                        *)
(***************************************************************************)
\* the largest output width and height a configuration asks for
MaxOut == 2

\* the number of distinct input frames
MaxFrames == 2

Frames == 1..MaxFrames

LensTypes == {"FISHEYE", "DUAL_FISHEYE", "PANORAMIC"}

ProjectionTypes == {"EQUIRECTANGULAR", "RECTILINEAR", "CYLINDRICAL", "FISHEYE_UNDISTORT"}

\* struct DewarperConfig with its default member values
DefaultConfig ==
    [lens_type       |-> "FISHEYE",
     projection      |-> "FISHEYE_UNDISTORT",
     input_fov       |-> FromInt(180),
     input_width     |-> 0,
     input_height    |-> 0,
     output_width    |-> 1920,
     output_height   |-> 1920,
     center_x        |-> FScale \div 2,
     center_y        |-> FScale \div 2,
     pan_angle       |-> 0,
     tilt_angle      |-> 0,
     rectilinear_fov |-> FromInt(90),
     focal_length    |-> FromInt(960),
     k1              |-> 0,
     k2              |-> 0,
     k3              |-> 0,
     k4              |-> 0,
     scale           |-> FScale \div 2]

\* the default configuration brought to frames a few pixels wide, with the
\* focal length scaled to them: the configuration the others vary
BaseConfig ==
    [lens_type       |-> "FISHEYE",
     projection      |-> "FISHEYE_UNDISTORT",
     input_fov       |-> FromInt(180),
     input_width     |-> 4,
     input_height    |-> 4,
     output_width    |-> 2,
     output_height   |-> 2,
     center_x        |-> FScale \div 2,
     center_y        |-> FScale \div 2,
     pan_angle       |-> 0,
     tilt_angle      |-> 0,
     rectilinear_fov |-> FromInt(90),
     focal_length    |-> FromInt(2),
     k1              |-> 0,
     k2              |-> 0,
     k3              |-> 0,
     k4              |-> 0,
     scale           |-> FScale \div 2]

\* every projection at every output size, the empty sizes included
SizeConfigs ==
    {[BaseConfig EXCEPT !.projection = p, !.output_width = w, !.output_height = h] :
        p \in ProjectionTypes, w \in 0..MaxOut, h \in 0..MaxOut}

\* input fields of view inside and outside (0, 360]
FovConfigs ==
    {[BaseConfig EXCEPT !.projection = p, !.input_fov = FromInt(f)] :
        p \in ProjectionTypes, f \in {0, 90, 360, 400}}

\* viewing directions off the optical axis
ViewConfigs ==
    {[BaseConfig EXCEPT !.projection = p, !.input_fov = FromInt(f),
                        !.pan_angle = FromInt(v[1]), !.tilt_angle = FromInt(v[2])] :
        p \in ProjectionTypes \ {"FISHEYE_UNDISTORT"}, f \in {90, 180},
        v \in {<<90, 0>>, <<0, 45>>}}

\* optical centres on the border of and outside [0,1] x [0,1], other lenses
CenterConfigs ==
    {[BaseConfig EXCEPT !.projection = p, !.lens_type = v[1],
                        !.center_x = v[2], !.center_y = v[3]] :
        p \in ProjectionTypes,
        v \in {<<"DUAL_FISHEYE", 0, 0>>, <<"PANORAMIC", 3 * (FScale \div 2), FScale \div 2>>}}

\* input frames of other sizes; 0 x 0 is the default of the struct
InputConfigs ==
    {[BaseConfig EXCEPT !.projection = p, !.input_width = v[1], !.input_height = v[2]] :
        p \in ProjectionTypes, v \in {<<0, 0>>, <<4, 2>>}}

\* output fields of view of the rectilinear projection
RectFovConfigs ==
    {[BaseConfig EXCEPT !.projection = "RECTILINEAR", !.rectilinear_fov = FromInt(f)] :
        f \in {0, 60, 400}}

\* focal lengths, scales and distortion coefficients of the undistortion
UndistortConfigs ==
    {[BaseConfig EXCEPT !.focal_length = FromInt(f), !.scale = sc, !.k1 = k] :
        f \in {0, 1}, sc \in {FScale \div 2, FScale}, k \in {0, FScale \div 10}}

\* undistortions whose optical centre is the output pixel (1, 1) and whose
\* scale is no power of two
ScaledConfigs ==
    {[BaseConfig EXCEPT !.focal_length = FromInt(f), !.scale = 3 * (FScale \div 10),
                        !.center_x = FScale \div 4, !.center_y = FScale \div 4] :
        f \in {1, 2}}

\* a rectilinear view whose corner ray, 54.9 degrees off the axis and well
\* inside the 154.1 degree lens, lands one pixel left of and above the frame
GrazingConfigs ==
    {[BaseConfig EXCEPT !.projection = "RECTILINEAR", !.input_fov = 154100,
                        !.input_width = 5, !.center_x = 1, !.center_y = 2]}

\* the configurations the builders are run on
ConfigSet ==
    SizeConfigs \cup FovConfigs \cup ViewConfigs \cup CenterConfigs
        \cup InputConfigs \cup RectFovConfigs \cup UndistortConfigs \cup ScaledConfigs
        \cup GrazingConfigs

\* the configurations the engine's callers pass: every projection at an
\* empty, a flat and a full output size, geometry outside the data model's
\* ranges, and an undistortion whose table reaches half a pixel beyond the
\* frame's corner
EngineConfigs ==
    {[BaseConfig EXCEPT !.projection = p, !.output_width = v[1], !.output_height = v[2]] :
        p \in ProjectionTypes, v \in {<<0, MaxOut>>, <<MaxOut, 1>>, <<MaxOut, MaxOut>>}}
    \cup {[BaseConfig EXCEPT !.projection = "RECTILINEAR", !.input_fov = 0],
          [BaseConfig EXCEPT !.projection = "EQUIRECTANGULAR",
                             !.center_x = 3 * (FScale \div 2)],
          [BaseConfig EXCEPT !.input_width = 0, !.input_height = 0],
          [BaseConfig EXCEPT !.center_x = FScale \div 8, !.center_y = FScale \div 8]}

\* the configurations a reconfiguration switches between while frames are
\* being processed
ConcConfigs ==
    {[BaseConfig EXCEPT !.projection = "EQUIRECTANGULAR", !.output_height = 1],
     [BaseConfig EXCEPT !.projection = "RECTILINEAR", !.output_height = 1],
     [BaseConfig EXCEPT !.projection = "CYLINDRICAL", !.output_width = 1,
                        !.output_height = 1],
     [BaseConfig EXCEPT !.projection = "FISHEYE_UNDISTORT", !.output_width = 1,
                        !.output_height = 1]}

AllConfigs == ConfigSet \cup EngineConfigs \cup ConcConfigs

\* the output pixel a loop visits in its i-th iteration, i counted from 0
PixelX(c, i) == i % c.output_width

PixelY(c, i) == i \div c.output_width

PixelCount(c) == c.output_height * c.output_width

Pixels(c) == 0..(PixelCount(c) - 1)

(***************************************************************************)
(* The per-pixel functions tabulated over the configurations above, so     *)
(* that a loop iteration looks its value up instead of computing it anew.  *)
(***************************************************************************)
\* what the loop body of build_equirectangular_map stores for pixel i
EquirectTable ==
    [c \in AllConfigs |->
        [i \in Pixels(c) |-> EquirectPixel(c, PixelX(c, i), PixelY(c, i))]]

\* what the loop body of build_rectilinear_map stores for pixel i
RectTable ==
    [c \in AllConfigs |-> [i \in Pixels(c) |-> RectPixel(c, PixelX(c, i), PixelY(c, i))]]

\* what the loop body of build_cylindrical_map stores for pixel i
CylTable ==
    [c \in AllConfigs |-> [i \in Pixels(c) |-> CylPixel(c, PixelX(c, i), PixelY(c, i))]]

\* what the loop body of build_fisheye_undistort_map stores for pixel i
UndistortTable ==
    [c \in AllConfigs |->
        [i \in Pixels(c) |-> UndistortPixel(c, PixelX(c, i), PixelY(c, i))]]

\* theta and phi as the builder of c.projection computes them for pixel i
\* (the undistortion computes neither)
AnglesTable ==
    [c \in AllConfigs |->
        [i \in Pixels(c) |->
            CASE c.projection = "EQUIRECTANGULAR" ->
                     EquirectAngles(c, PixelX(c, i), PixelY(c, i))
              [] c.projection = "RECTILINEAR" ->
                     RectAngles(c, PixelX(c, i), PixelY(c, i))
              [] c.projection = "CYLINDRICAL" ->
                     CylAngles(c, PixelX(c, i), PixelY(c, i))
              [] OTHER -> <<0, 0>>]]

\* the sample coordinate the builder of c.projection computes for pixel i:
\* fish_x, fish_y, or u_in, v_in
PointTable ==
    [c \in AllConfigs |->
        [i \in Pixels(c) |->
            IF c.projection = "FISHEYE_UNDISTORT"
            THEN UndistortPoint(c, PixelX(c, i), PixelY(c, i))
            ELSE FishPointOf(c, AnglesTable[c][i])]]

(***************************************************************************)
(* cv::Mat, as far as the engine uses it: a header (rows, cols) and a      *)
(* row-major buffer.  A cell that was allocated and not yet written holds  *)
(* garbage.                                                                *)
(***************************************************************************)
\* the content of a float cell that was never written
Garbage == FMax + 3

\* the content of an image pixel that was never written
GarbagePixel == [frame |-> 0, at |-> <<Garbage, Garbage>>, bgr |-> Garbage]

EmptyMat == [rows |-> 0, cols |-> 0, data |-> <<>>]

\* cv::Mat::create: a Mat that already has the shape keeps its buffer and
\* its contents, any other gets a fresh buffer of unwritten cells
MatCreate(m, rows, cols, unwritten) ==
    IF m.rows = rows /\ m.cols = cols /\ Len(m.data) > 0 THEN m
    ELSE [rows |-> rows, cols |-> cols, data |-> [i \in 1..(rows * cols) |-> unwritten]]

\* m.at<float>(y, x) = v
MatSet(m, y, x, v) == [m EXCEPT !.data[y * m.cols + x + 1] = v]

\* cv::Mat::empty
MatEmpty(m) == Len(m.data) = 0

(***************************************************************************)
(* The builders.  maps is the pair <<map_x_, map_y_>>; a builder's loops   *)
(* visit the output pixels row by row and store one value per grid.        *)
(***************************************************************************)
\* a loop body that stores into map_x_ only
StorePixelXOnly(maps, y, x, p) == <<MatSet(maps[1], y, x, p[1]), maps[2]>>

\* the two stores that end a loop body, p the pair of values stored
StorePixel(maps, y, x, p) == <<MatSet(maps[1], y, x, p[1]), MatSet(maps[2], y, x, p[2])>>

\* the iterations i, i + 1, ... of a builder's loops over the output pixels,
\* tab the values its loop body computes
RECURSIVE FillFrom(_, _, _, _)
FillFrom(c, maps, tab, i) ==
    IF i >= PixelCount(c) THEN maps
    ELSE FillFrom(c, StorePixel(maps, PixelY(c, i), PixelX(c, i), tab[i]), tab, i + 1)

\* the create pair with rows and columns exchanged
CreateMapsTransposed(c, maps) ==
    <<MatCreate(maps[1], c.output_width, c.output_height, Garbage),
      MatCreate(maps[2], c.output_width, c.output_height, Garbage)>>

\* the map_x_.create / map_y_.create pair that precedes every loop
CreateMaps(c, maps) ==
    <<MatCreate(maps[1], c.output_height, c.output_width, Garbage),
      MatCreate(maps[2], c.output_height, c.output_width, Garbage)>>

build_equirectangular_map(c, maps) == FillFrom(c, maps, EquirectTable[c], 0)

build_rectilinear_map(c, maps) == FillFrom(c, maps, RectTable[c], 0)

build_cylindrical_map(c, maps) == FillFrom(c, maps, CylTable[c], 0)

build_fisheye_undistort_map(c, maps) ==
    FillFrom(c, CreateMaps(c, maps), UndistortTable[c], 0)

build_lookup_tables(c, maps) ==
    CASE c.projection = "EQUIRECTANGULAR" ->
             build_equirectangular_map(c, CreateMaps(c, maps))
      [] c.projection = "RECTILINEAR" ->
             build_rectilinear_map(c, CreateMaps(c, maps))
      [] c.projection = "CYLINDRICAL" ->
             build_cylindrical_map(c, CreateMaps(c, maps))
      [] c.projection = "FISHEYE_UNDISTORT" ->
             build_fisheye_undistort_map(c, maps)

(***************************************************************************)
(* class Dewarper and its callers.                                         *)
(***************************************************************************)
VARIABLES
    config_,        \* DewarperConfig config_
    map_x_,         \* cv::Mat map_x_
    map_y_,         \* cv::Mat map_y_
    bgr_temp_,      \* cv::Mat bgr_temp_: the frame last converted, 0 when none
    initialized_,   \* bool initialized_
    output_bgr,     \* the caller's output image
    call,           \* the last call that returned, and what it returned
    configured,     \* history: some configure call has returned true
    b_pc,           \* where the thread inside init / update_config stands
    b_op,           \* which of the two it is inside
    b_i,            \* the index of the pixel its loops are at
    p_pc,           \* where the thread inside process stands
    p_i,            \* the index of the pixel cv::remap is at
    p_shared,       \* cv::remap's map headers still share the engine's buffers
    p_maps          \* the buffers cv::remap holds once they are no longer shared

\* class ImageBuffer and its callers
VARIABLES
    slots_,         \* std::vector<ImageSlot> slots_
    write_index_,   \* size_t write_index_
    image_count_,   \* size_t image_count_
    mutex_,         \* std::mutex mutex_: the thread that holds it, or Nobody
    pushes,         \* history: the images pushed, in the order of the pushes
    ib_push,        \* the thread inside push: where it stands, its arguments
    ib_get          \* the thread inside get / has_image: likewise

\* class FastCGIServer and the socket it listens on
VARIABLES
    running_,       \* std::atomic<bool> running_
    server_thread_, \* std::thread server_thread_: where the thread stands
    f_stop,         \* where the thread inside stop stands
    requests,       \* the requests that wait at the socket
    arrived,        \* history: how many requests have reached the socket
    request,        \* FCGX_Request request of server_loop
    response,       \* what handle_request sent last
    f_log           \* what the server wrote to syslog last

\* class RTSPServer and the streaming thread
VARIABLES
    rtsp_running_,    \* std::atomic<bool> running_
    frame_mutex_,     \* std::mutex frame_mutex_: the thread that holds it, or Nobody
    current_jpeg_,    \* the JPEG that push_frame stored last
    frame_available_, \* std::atomic<bool> frame_available_
    timestamp_,       \* guint64 timestamp_
    rtsp_fps,         \* config_.fps
    stored,           \* history: the JPEGs stored, in the order of the stores
    handed,           \* history: the buffers handed to the appsrc element
    r_push,           \* the thread inside push_frame
    r_need            \* the thread inside on_need_data

\* main, its processing loop
VARIABLES
    shutdown_requested, \* volatile sig_atomic_t shutdown_requested
    m_pc,               \* where main stands
    vdo_buf,            \* g_autoptr(VdoBuffer) vdo_buf: the buffer held, or NoBuffer
    delivered,          \* history: how many buffers the image provider has delivered
    m_log               \* history: what the loop did, in order

evars == <<config_, map_x_, map_y_, bgr_temp_, initialized_, output_bgr, call, configured>>

bvars == <<b_pc, b_op, b_i>>

pvars == <<p_pc, p_i, p_shared, p_maps>>

ibvars == <<slots_, write_index_, image_count_, mutex_, pushes, ib_push, ib_get>>

\* the components of the host beside the engine
fvars == <<running_, server_thread_, f_stop, requests, arrived, request, response, f_log>>

rvars == <<rtsp_running_, frame_mutex_, current_jpeg_, frame_available_, timestamp_,
           rtsp_fps, stored, handed, r_push, r_need>>

mvars == <<shutdown_requested, m_pc, vdo_buf, delivered, m_log>>

hvars == <<ibvars, fvars, rvars, mvars>>

\* the engine beside the record of the last call
dvars == <<config_, map_x_, map_y_, bgr_temp_, initialized_, output_bgr, configured,
           bvars, pvars>>

\* what the operations of the image buffer leave alone
ib_rest == <<dvars, fvars, rvars, mvars>>

\* what the operations of the FastCGI server leave alone
f_rest == <<dvars, rvars, mvars>>

\* what the operations of the RTSP server leave alone
r_rest == <<dvars, ibvars, fvars, mvars>>

\* what the processing loop of main leaves alone
m_rest == <<dvars, call, ibvars, fvars, rvars>>

vars == <<evars, bvars, pvars, hvars>>

\* static constexpr size_t BUFFER_SIZE
BUFFER_SIZE == 31

\* no thread holds the mutex
Nobody == "nobody"

\* a thread that is outside every operation of the buffer
Outside ==
    [pc |-> "idle", arg |-> <<>>, at |-> 0, k |-> 0, n |-> 0, out |-> <<>>, due |-> <<>>]

\* ImageBuffer::ImageBuffer() : slots_(BUFFER_SIZE)
InitImageBuffer ==
    /\ slots_ = [i \in 0 .. BUFFER_SIZE - 1 |-> [data |-> <<>>, valid |-> FALSE]]
    /\ write_index_ = 0
    /\ image_count_ = 0
    /\ mutex_ = Nobody
    /\ pushes = <<>>
    /\ ib_push = Outside
    /\ ib_get = Outside

\* FastCGIServer::FastCGIServer() = default, and a socket nothing has
\* reached yet
InitServer ==
    /\ running_ = FALSE
    /\ server_thread_ = "unstarted"
    /\ f_stop = "idle"
    /\ requests = <<>>
    /\ arrived = 0
    /\ request = [uri |-> FALSE, image_index |-> -1]
    /\ response = [status |-> 0, body |-> <<>>]
    /\ f_log = "none"

\* RTSPServer::RTSPServer(): config_ holds the defaults of RTSPServerConfig
InitRtsp ==
    /\ rtsp_running_ = FALSE
    /\ frame_mutex_ = Nobody
    /\ current_jpeg_ = <<>>
    /\ frame_available_ = FALSE
    /\ timestamp_ = 0
    /\ rtsp_fps = 15
    /\ stored = <<>>
    /\ handed = <<>>
    /\ r_push = Outside
    /\ r_need = Outside

\* a null VdoBuffer pointer
NoBuffer == 0

\* main as it reaches its processing loop
InitMain ==
    /\ shutdown_requested = FALSE
    /\ m_pc = "while"
    /\ vdo_buf = NoBuffer
    /\ delivered = 0
    /\ m_log = <<>>

\* a pixel the caller's output image holds from an earlier use: white
StalePixel == [frame |-> 0, at |-> Sentinel, bgr |-> 255]

\* the output image the caller passes to its first process call: a fresh
\* cv::Mat, or one it has used before
CallerImages ==
    {EmptyMat, [rows |-> 1, cols |-> MaxOut, data |-> [i \in 1..MaxOut |-> StalePixel]]}

\* the state a default-constructed Dewarper and the caller's output image
\* are in
Init ==
    /\ config_ = DefaultConfig
    /\ map_x_ = EmptyMat
    /\ map_y_ = EmptyMat
    /\ bgr_temp_ = 0
    /\ initialized_ = FALSE
    /\ output_bgr \in CallerImages
    /\ call = [op |-> "none", ret |-> "none", arg |-> <<>>]
    /\ configured = FALSE
    /\ b_pc = "idle"
    /\ b_op = "none"
    /\ b_i = 0
    /\ p_pc = "idle"
    /\ p_i = 0
    /\ p_shared = FALSE
    /\ p_maps = <<EmptyMat, EmptyMat>>
    /\ InitImageBuffer
    /\ InitServer
    /\ InitRtsp
    /\ InitMain

\* the engine's two grids become maps
Install(maps) == map_x_' = maps[1] /\ map_y_' = maps[2]

\* bool Dewarper::init(const DewarperConfig&)
init(c) ==
    /\ config_' = c
    /\ Install(build_lookup_tables(c, <<map_x_, map_y_>>))
    /\ initialized_' = TRUE
    /\ call' = [op |-> "init", ret |-> "true", arg |-> c]
    /\ configured' = TRUE
    /\ UNCHANGED <<bgr_temp_, output_bgr, bvars, pvars>>

\* bool Dewarper::update_config(const DewarperConfig&)
update_config(c) ==
    /\ config_' = c
    /\ Install(build_lookup_tables(c, <<map_x_, map_y_>>))
    /\ call' = [op |-> "update_config", ret |-> "true", arg |-> c]
    /\ configured' = TRUE
    /\ UNCHANGED <<initialized_, bgr_temp_, output_bgr, bvars, pvars>>

\* the size of the frames the caller passes
FrameWidth == 4

FrameHeight == 4

\* the colour of pixel (x, y) of frame f after cv::cvtColor, one number
\* for the three channels; no pixel of a frame is black
FrameColour[f \in Int, x \in Int, y \in Int] == 40 * f + 10 * y + x + 1

\* BORDER_CONSTANT with the default border value: a position outside the
\* source image reads as black
BorderColour == 0

\* BORDER_REPLICATE: a position outside the source image reads as the
\* nearest pixel of the image
ReplicatedPixel(f, x, y) ==
    FrameColour[f, Clamp[x, 0, FrameWidth - 1], Clamp[y, 0, FrameHeight - 1]]

\* the pixel cv::remap reads at the integer position (x, y) of frame f
SourcePixel(f, x, y) ==
    IF x >= 0 /\ x < FrameWidth /\ y >= 0 /\ y < FrameHeight
    THEN FrameColour[f, x, y]
    ELSE BorderColour

\* the integer position left of, or above, a coordinate
Floor[v \in Int] == v \div FScale

\* INTER_LINEAR: the four positions around (x, y), x0 and y0 the floors of
\* x and y, weighted by the distances wx = x - x0 and wy = y - y0
Weighted[p00 \in Int, p10 \in Int, p01 \in Int, p11 \in Int, wx \in Int, wy \in Int] ==
    RDiv[(FScale - wx) * (FScale - wy) * p00 + wx * (FScale - wy) * p10
            + (FScale - wx) * wy * p01 + wx * wy * p11,
         FScale * FScale]

\* the colour cv::remap gives a pixel whose table entry is (x, y), finite
Bilinear(f, x, y) ==
    Weighted[SourcePixel(f, Floor[x], Floor[y]), SourcePixel(f, Floor[x] + 1, Floor[y]),
             SourcePixel(f, Floor[x], Floor[y] + 1),
             SourcePixel(f, Floor[x] + 1, Floor[y] + 1),
             x - Floor[x] * FScale, y - Floor[y] * FScale]

\* the colour of a pixel whose table entry is at; an entry that is no
\* finite number is converted to a position far outside the image
Interpolate(f, at) ==
    IF IsFinite(at[1]) /\ IsFinite(at[2]) THEN Bilinear(f, at[1], at[2]) ELSE BorderColour

\* BORDER_TRANSPARENT: a pixel whose table entry is the sentinel is left as
\* dst holds it
SampledTransparent(src, maps, i) ==
    IF <<maps[1].data[i], maps[2].data[i]>> = Sentinel
    THEN IF i <= Len(output_bgr.data) THEN output_bgr.data[i] ELSE GarbagePixel
    ELSE [frame |-> src, at |-> <<maps[1].data[i], maps[2].data[i]>>,
          bgr |-> Interpolate(src, <<maps[1].data[i], maps[2].data[i]>>)]

\* what cv::remap stores in a pixel of dst: the frame it samples, the
\* coordinate it samples it at and the colour that gives
Sampled(src, maps, i) ==
    [frame |-> src, at |-> <<maps[1].data[i], maps[2].data[i]>>,
     bgr |-> Interpolate(src, <<maps[1].data[i], maps[2].data[i]>>)]

\* cv::remap(src, dst, map1, map2, INTER_LINEAR, BORDER_CONSTANT): dst takes
\* the shape of map1 and every pixel of it is sampled from src at the
\* coordinate the two grids hold for it
Remap(src, maps) ==
    [rows |-> maps[1].rows, cols |-> maps[1].cols,
     data |-> [i \in 1..(maps[1].rows * maps[1].cols) |-> Sampled(src, maps, i)]]

\* process handing back an empty output image when it is not ready
processClearingOutput(f) ==
    IF ~initialized_
    THEN /\ call' = [op |-> "process", ret |-> "false", arg |-> f]
         /\ output_bgr' = EmptyMat
         /\ UNCHANGED <<config_, map_x_, map_y_, bgr_temp_, initialized_,
                        configured, bvars, pvars>>
    ELSE /\ bgr_temp_' = f
         /\ IF MatEmpty(map_x_)
            THEN /\ call' = [op |-> "process", ret |-> "throw", arg |-> f]
                 /\ UNCHANGED output_bgr
            ELSE /\ call' = [op |-> "process", ret |-> "true", arg |-> f]
                 /\ output_bgr' = Remap(f, <<map_x_, map_y_>>)
         /\ UNCHANGED <<config_, map_x_, map_y_, initialized_, configured, bvars, pvars>>

\* process releasing the two grids once the frame is remapped
processReleasing(f) ==
    IF ~initialized_
    THEN /\ call' = [op |-> "process", ret |-> "false", arg |-> f]
         /\ UNCHANGED <<config_, map_x_, map_y_, bgr_temp_, initialized_,
                        output_bgr, configured, bvars, pvars>>
    ELSE /\ bgr_temp_' = f
         /\ IF MatEmpty(map_x_)
            THEN /\ call' = [op |-> "process", ret |-> "throw", arg |-> f]
                 /\ UNCHANGED output_bgr
            ELSE /\ call' = [op |-> "process", ret |-> "true", arg |-> f]
                 /\ output_bgr' = Remap(f, <<map_x_, map_y_>>)
         /\ map_x_' = EmptyMat
         /\ map_y_' = EmptyMat
         /\ UNCHANGED <<config_, initialized_, configured, bvars, pvars>>

\* process without its check of initialized_
processUnchecked(f) ==
    /\ bgr_temp_' = f
    /\ IF MatEmpty(map_x_)
       THEN /\ call' = [op |-> "process", ret |-> "throw", arg |-> f]
            /\ UNCHANGED output_bgr
       ELSE /\ call' = [op |-> "process", ret |-> "true", arg |-> f]
            /\ output_bgr' = Remap(f, <<map_x_, map_y_>>)
    /\ UNCHANGED <<config_, map_x_, map_y_, initialized_, configured, bvars, pvars>>

\* bool Dewarper::process(const cv::Mat&, cv::Mat&); cv::remap throws on an
\* empty map
process(f) ==
    IF ~initialized_
    THEN /\ call' = [op |-> "process", ret |-> "false", arg |-> f]
         /\ UNCHANGED <<config_, map_x_, map_y_, bgr_temp_, initialized_,
                        output_bgr, configured, bvars, pvars>>
    ELSE /\ bgr_temp_' = f
         /\ IF MatEmpty(map_x_)
            THEN /\ call' = [op |-> "process", ret |-> "throw", arg |-> f]
                 /\ UNCHANGED output_bgr
            ELSE /\ call' = [op |-> "process", ret |-> "true", arg |-> f]
                 /\ output_bgr' = Remap(f, <<map_x_, map_y_>>)
         /\ UNCHANGED <<config_, map_x_, map_y_, initialized_, configured, bvars, pvars>>

CallInit == \E c \in EngineConfigs : init(c) /\ UNCHANGED hvars

CallUpdateConfig == \E c \in EngineConfigs : update_config(c) /\ UNCHANGED hvars

CallProcess == \E f \in Frames : process(f) /\ UNCHANGED hvars

\* one caller, one call after the other
Next == CallInit \/ CallUpdateConfig \/ CallProcess

Spec == Init /\ [][Next]_vars

(***************************************************************************)
(* The configure operations statement by statement: the assignment of      *)
(* config_, the create pair, one loop iteration at a time, the return.     *)
(***************************************************************************)
\* "config_ = config" on entry to init or update_config
Enter(op, c) ==
    /\ b_pc = "idle"
    /\ b_pc' = "create"
    /\ b_op' = op
    /\ config_' = c
    /\ UNCHANGED <<map_x_, map_y_, bgr_temp_, initialized_, output_bgr, call, configured,
                   b_i, pvars>>
    /\ UNCHANGED hvars

\* map_x_.create, map_y_.create: a cv::remap in flight keeps the buffers it
\* started on when the engine's grids get new ones
Create ==
    /\ b_pc = "create"
    /\ Install(CreateMaps(config_, <<map_x_, map_y_>>))
    /\ p_shared' = (p_shared /\ CreateMaps(config_, <<map_x_, map_y_>>) = <<map_x_, map_y_>>)
    /\ p_maps' = IF p_shared /\ ~p_shared' THEN <<map_x_, map_y_>> ELSE p_maps
    /\ b_pc' = "loop"
    /\ b_i' = 0
    /\ UNCHANGED <<config_, bgr_temp_, initialized_, output_bgr, call, configured,
                   b_op, p_pc, p_i>>
    /\ UNCHANGED hvars

\* one iteration of a builder's inner loop, tab the values its body computes
LoopBody(tab) ==
    /\ b_pc = "loop"
    /\ b_i < PixelCount(config_)
    /\ Install(StorePixel(<<map_x_, map_y_>>, PixelY(config_, b_i), PixelX(config_, b_i),
                          tab[config_][b_i]))
    /\ b_i' = b_i + 1
    /\ UNCHANGED <<config_, bgr_temp_, initialized_, output_bgr, call, configured,
                   b_pc, b_op, pvars>>
    /\ UNCHANGED hvars

EquirectLoop == config_.projection = "EQUIRECTANGULAR" /\ LoopBody(EquirectTable)

RectLoop == config_.projection = "RECTILINEAR" /\ LoopBody(RectTable)

CylLoop == config_.projection = "CYLINDRICAL" /\ LoopBody(CylTable)

UndistortLoop == config_.projection = "FISHEYE_UNDISTORT" /\ LoopBody(UndistortTable)

\* the loops are through: "initialized_ = true" in init, "return true" in both
Return ==
    /\ b_pc = "loop"
    /\ b_i >= PixelCount(config_)
    /\ initialized_' = (initialized_ \/ b_op = "init")
    /\ call' = [op |-> b_op, ret |-> "true", arg |-> config_]
    /\ configured' = TRUE
    /\ b_pc' = "idle"
    /\ b_op' = "none"
    /\ b_i' = 0
    /\ UNCHANGED <<config_, map_x_, map_y_, bgr_temp_, output_bgr, pvars>>
    /\ UNCHANGED hvars

Build == Create \/ EquirectLoop \/ RectLoop \/ CylLoop \/ UndistortLoop \/ Return

EnterInit == \E c \in ConfigSet : Enter("init", c)

EnterUpdateConfig == \E c \in ConfigSet : Enter("update_config", c)

\* configure calls one after the other, on every configuration of ConfigSet
NextBuild == EnterInit \/ EnterUpdateConfig \/ Build

SpecBuild == Init /\ [][NextBuild]_vars

(***************************************************************************)
(* process statement by statement, on a thread of its own next to the      *)
(* thread that configures: the source takes no lock and copies no table.   *)
(***************************************************************************)
\* the grids the cv::remap in flight reads
View == IF p_shared THEN <<map_x_, map_y_>> ELSE p_maps

\* entry of process up to the first pixel of cv::remap
ProcessEnter(f) ==
    /\ p_pc = "idle"
    /\ IF ~initialized_
       THEN /\ call' = [op |-> "process", ret |-> "false", arg |-> f]
            /\ UNCHANGED <<bgr_temp_, output_bgr, pvars>>
       ELSE /\ bgr_temp_' = f
            /\ IF MatEmpty(map_x_)
               THEN /\ call' = [op |-> "process", ret |-> "throw", arg |-> f]
                    /\ UNCHANGED <<output_bgr, pvars>>
               ELSE /\ output_bgr' = MatCreate(output_bgr, map_x_.rows, map_x_.cols,
                                               GarbagePixel)
                    /\ p_pc' = "remap"
                    /\ p_i' = 0
                    /\ p_shared' = TRUE
                    /\ UNCHANGED <<call, p_maps>>
    /\ UNCHANGED <<config_, map_x_, map_y_, initialized_, configured, bvars>>
    /\ UNCHANGED hvars

\* cv::remap samples one pixel
RemapPixel ==
    /\ p_pc = "remap"
    /\ p_i < Len(output_bgr.data)
    /\ output_bgr' = [output_bgr EXCEPT !.data[p_i + 1] = Sampled(bgr_temp_, View, p_i + 1)]
    /\ p_i' = p_i + 1
    /\ UNCHANGED <<config_, map_x_, map_y_, bgr_temp_, initialized_, call, configured,
                   bvars, p_pc, p_shared, p_maps>>
    /\ UNCHANGED hvars

\* "return true"
ProcessReturn ==
    /\ p_pc = "remap"
    /\ p_i >= Len(output_bgr.data)
    /\ call' = [op |-> "process", ret |-> "true", arg |-> bgr_temp_]
    /\ p_pc' = "idle"
    /\ p_i' = 0
    /\ p_shared' = FALSE
    /\ p_maps' = <<EmptyMat, EmptyMat>>
    /\ UNCHANGED <<config_, map_x_, map_y_, bgr_temp_, initialized_, output_bgr,
                   configured, bvars>>
    /\ UNCHANGED hvars

ConcInit == \E c \in ConcConfigs : Enter("init", c)

ConcUpdateConfig == \E c \in ConcConfigs : Enter("update_config", c)

ConcProcess == \E f \in Frames : ProcessEnter(f)

\* a thread that configures and a thread that processes frames
NextConc ==
    ConcInit \/ ConcUpdateConfig \/ Build \/ ConcProcess \/ RemapPixel \/ ProcessReturn

SpecConc == Init /\ [][NextConc]_vars

(***************************************************************************)
(* The two token parsers, as the application calls them when it reads its  *)
(* parameters.                                                             *)
(***************************************************************************)
\* LensType Dewarper::parse_lens_type(const std::string&)
parse_lens_type(str) ==
    IF str = "dual_fisheye" THEN "DUAL_FISHEYE"
    ELSE IF str = "panoramic" THEN "PANORAMIC"
    ELSE "FISHEYE"

\* a parser whose fallback is the first tag of the enum
parse_projection_type_first_tag(str) ==
    IF str = "rectilinear" THEN "RECTILINEAR"
    ELSE IF str = "cylindrical" THEN "CYLINDRICAL"
    ELSE IF str = "fisheye_undistort" THEN "FISHEYE_UNDISTORT"
    ELSE "EQUIRECTANGULAR"

\* ProjectionType Dewarper::parse_projection_type(const std::string&)
parse_projection_type(str) ==
    IF str = "rectilinear" THEN "RECTILINEAR"
    ELSE IF str = "cylindrical" THEN "CYLINDRICAL"
    ELSE IF str = "fisheye_undistort" THEN "FISHEYE_UNDISTORT"
    ELSE "FISHEYE_UNDISTORT"

\* the strings a parameter can hold: the tokens of the two tag sets, the
\* empty string, other spellings and words that name no tag
Tokens ==
    {"fisheye", "dual_fisheye", "panoramic",
     "equirectangular", "rectilinear", "cylindrical", "fisheye_undistort",
     "", "Dual_Fisheye", "PANORAMIC", "rectilinear ", "stereographic"}

\* dewarp_config.lens_type = parse_lens_type(lens_type_str);
\* dewarp_config.projection = parse_projection_type(projection_str)
ParseTokens ==
    \E lens_type_str \in Tokens, projection_str \in Tokens :
        /\ call' = [op  |-> "parse",
                    ret |-> [lens_type  |-> parse_lens_type(lens_type_str),
                             projection |-> parse_projection_type(projection_str)],
                    arg |-> [lens_type_str  |-> lens_type_str,
                             projection_str |-> projection_str]]
        /\ UNCHANGED <<config_, map_x_, map_y_, bgr_temp_, initialized_, output_bgr,
                       configured, bvars, pvars, hvars>>

NextParse == ParseTokens

SpecParse == Init /\ [][NextParse]_vars

(***************************************************************************)
(* class ImageBuffer: push, get and has_image, each call in one step.      *)
(***************************************************************************)
\* how many pushes a run makes
MaxPushes == 33

\* how many of them push zero bytes
MaxEmpty == 1

\* the write index advanced without the wrap
AdvanceIndexUnwrapped(i) == i + 1

\* write_index_ = (write_index_ + 1) % BUFFER_SIZE
AdvanceIndex(i) == (i + 1) % BUFFER_SIZE

\* if (image_count_ < BUFFER_SIZE) image_count_++
AdvanceCount(n) == IF n < BUFFER_SIZE THEN n + 1 ELSE n

\* slot.data.assign(jpeg_data, jpeg_data + jpeg_size); slot.valid = true
StoreImage(slots, i, jpeg_data) ==
    [slots EXCEPT ![i] = [data |-> jpeg_data, valid |-> TRUE]]

\* void ImageBuffer::push(const uint8_t*, size_t)
push(jpeg_data) ==
    /\ slots_' = StoreImage(slots_, write_index_, jpeg_data)
    /\ write_index_' = AdvanceIndex(write_index_)
    /\ image_count_' = AdvanceCount(image_count_)
    /\ pushes' = Append(pushes, jpeg_data)
    /\ call' = [op |-> "push", ret |-> "void", arg |-> jpeg_data]

\* size_t latest_index
latest_index == (write_index_ + BUFFER_SIZE - 1) % BUFFER_SIZE

\* size_t actual_index
actual_index(relative_index) ==
    (latest_index + BUFFER_SIZE - relative_index) % BUFFER_SIZE

\* what get returns and what the caller's vector holds afterwards
GetOutcome(relative_index, out_jpeg) ==
    IF relative_index >= BUFFER_SIZE THEN [ok |-> FALSE, out_jpeg |-> out_jpeg]
    ELSE IF image_count_ = 0 THEN [ok |-> FALSE, out_jpeg |-> out_jpeg]
    ELSE IF relative_index >= image_count_ THEN [ok |-> FALSE, out_jpeg |-> out_jpeg]
    ELSE IF \/ ~slots_[actual_index(relative_index)].valid
            \/ slots_[actual_index(relative_index)].data = <<>>
         THEN [ok |-> FALSE, out_jpeg |-> out_jpeg]
    ELSE [ok |-> TRUE, out_jpeg |-> slots_[actual_index(relative_index)].data]

\* bool ImageBuffer::get(size_t, std::vector<uint8_t>&) const
get(relative_index, out_jpeg) ==
    /\ call' = [op  |-> "get",
                ret |-> GetOutcome(relative_index, out_jpeg),
                arg |-> [relative_index |-> relative_index, out_jpeg |-> out_jpeg]]
    /\ UNCHANGED <<slots_, write_index_, image_count_, pushes>>

\* what has_image returns
HasImageOutcome(relative_index) ==
    IF relative_index >= BUFFER_SIZE THEN FALSE ELSE relative_index < image_count_

\* bool ImageBuffer::has_image(size_t) const
has_image(relative_index) ==
    /\ call' = [op |-> "has_image", ret |-> HasImageOutcome(relative_index),
                arg |-> [relative_index |-> relative_index]]
    /\ UNCHANGED <<slots_, write_index_, image_count_, pushes>>

\* the images a caller pushes next: the JPEG of the next second, one byte
\* that tells it from every other, or no bytes at all
EmptyPushes == Cardinality({k \in 1 .. Len(pushes) : pushes[k] = <<>>})

NextImages ==
    {<<Len(pushes) + 1>>} \cup (IF EmptyPushes < MaxEmpty THEN {<<>>} ELSE {})

\* the relative indices a caller asks for: recent, old, the oldest the buffer
\* can hold, and beyond
Indices == {0, 1, 2, BUFFER_SIZE - 2, BUFFER_SIZE - 1, BUFFER_SIZE, BUFFER_SIZE + 1}

\* the vector a caller passes to get: empty, or holding an earlier answer
CallerVectors == {<<>>, <<255>>}

CallPush ==
    /\ Len(pushes) < MaxPushes
    /\ \E jpeg_data \in NextImages : push(jpeg_data)
    /\ UNCHANGED <<mutex_, ib_push, ib_get>>
    /\ UNCHANGED ib_rest

CallGet ==
    /\ \E relative_index \in Indices, out_jpeg \in CallerVectors :
           get(relative_index, out_jpeg)
    /\ UNCHANGED <<mutex_, ib_push, ib_get>>
    /\ UNCHANGED ib_rest

CallHasImage ==
    /\ \E relative_index \in Indices : has_image(relative_index)
    /\ UNCHANGED <<mutex_, ib_push, ib_get>>
    /\ UNCHANGED ib_rest

NextBuffer == CallPush \/ CallGet \/ CallHasImage

SpecBuffer == Init /\ [][NextBuffer]_vars

(***************************************************************************)
(* class ImageBuffer under threads: one thread pushes, another calls get   *)
(* and has_image; each statement is a step, a vector is copied byte by     *)
(* byte.                                                                   *)
(***************************************************************************)
\* the lock_guard of a thread that finds the mutex free, as if no mutex
\* were there
LockableAlways(owner) == TRUE

\* std::lock_guard<std::mutex> lock(mutex_): the constructor returns once
\* no other thread holds the mutex
Lockable(owner) == owner = Nobody

\* the image pushed next: two bytes that tell it from every other
WideImages == {<<Len(pushes) + 1, Len(pushes) + 1>>}

\* v after byte k + 1 of src has been copied over it
CopyByte(v, src, k) ==
    IF k < Len(v) THEN [v EXCEPT ![k + 1] = src[k + 1]] ELSE Append(v, src[k + 1])

\* push is called
PushCall ==
    /\ ib_push.pc = "idle"
    /\ Len(pushes) < MaxPushes
    /\ \E jpeg_data \in WideImages :
           ib_push' = [Outside EXCEPT !.pc = "lock", !.arg = jpeg_data]
    /\ UNCHANGED <<slots_, write_index_, image_count_, mutex_, pushes, ib_get, call>>
    /\ UNCHANGED ib_rest

\* push: std::lock_guard<std::mutex> lock(mutex_)
PushLock ==
    /\ ib_push.pc = "lock"
    /\ Lockable(mutex_)
    /\ mutex_' = "push"
    /\ pushes' = Append(pushes, ib_push.arg)
    /\ ib_push' = [ib_push EXCEPT !.pc = "assign", !.at = write_index_]
    /\ UNCHANGED <<slots_, write_index_, image_count_, ib_get, call>>
    /\ UNCHANGED ib_rest

\* push: slot.data.assign(jpeg_data, jpeg_data + jpeg_size)
PushAssign ==
    /\ ib_push.pc = "assign"
    /\ IF ib_push.k < Len(ib_push.arg)
       THEN /\ slots_' = [slots_ EXCEPT ![ib_push.at].data =
                              CopyByte(@, ib_push.arg, ib_push.k)]
            /\ ib_push' = [ib_push EXCEPT !.k = @ + 1]
       ELSE /\ slots_' = [slots_ EXCEPT ![ib_push.at].data =
                              SubSeq(@, 1, Len(ib_push.arg))]
            /\ ib_push' = [ib_push EXCEPT !.pc = "valid"]
    /\ UNCHANGED <<write_index_, image_count_, mutex_, pushes, ib_get, call>>
    /\ UNCHANGED ib_rest

\* push: slot.valid = true
PushValid ==
    /\ ib_push.pc = "valid"
    /\ slots_' = [slots_ EXCEPT ![ib_push.at].valid = TRUE]
    /\ ib_push' = [ib_push EXCEPT !.pc = "advance"]
    /\ UNCHANGED <<write_index_, image_count_, mutex_, pushes, ib_get, call>>
    /\ UNCHANGED ib_rest

\* push: write_index_ = (write_index_ + 1) % BUFFER_SIZE
PushAdvance ==
    /\ ib_push.pc = "advance"
    /\ write_index_' = AdvanceIndex(write_index_)
    /\ ib_push' = [ib_push EXCEPT !.pc = "count"]
    /\ UNCHANGED <<slots_, image_count_, mutex_, pushes, ib_get, call>>
    /\ UNCHANGED ib_rest

\* push: if (image_count_ < BUFFER_SIZE) image_count_++
PushCount ==
    /\ ib_push.pc = "count"
    /\ image_count_' = AdvanceCount(image_count_)
    /\ ib_push' = [ib_push EXCEPT !.pc = "unlock"]
    /\ UNCHANGED <<slots_, write_index_, mutex_, pushes, ib_get, call>>
    /\ UNCHANGED ib_rest

\* push returns: the lock_guard releases the mutex
PushReturn ==
    /\ ib_push.pc = "unlock"
    /\ mutex_' = Nobody
    /\ call' = [op |-> "push", ret |-> "void", arg |-> ib_push.arg]
    /\ ib_push' = Outside
    /\ UNCHANGED <<slots_, write_index_, image_count_, pushes, ib_get>>
    /\ UNCHANGED ib_rest

\* get is called: if (relative_index >= BUFFER_SIZE) return false
GetCall ==
    /\ ib_get.pc = "idle"
    /\ \E relative_index \in Indices, out_jpeg \in CallerVectors :
           IF relative_index >= BUFFER_SIZE
           THEN /\ call' = [op  |-> "get",
                            ret |-> [ok |-> FALSE, out_jpeg |-> out_jpeg],
                            arg |-> [relative_index |-> relative_index,
                                     out_jpeg       |-> out_jpeg]]
                /\ UNCHANGED ib_get
           ELSE /\ ib_get' = [Outside EXCEPT !.pc = "g_lock", !.at = relative_index,
                                             !.arg = out_jpeg, !.out = out_jpeg]
                /\ UNCHANGED call
    /\ UNCHANGED <<slots_, write_index_, image_count_, mutex_, pushes, ib_push>>
    /\ UNCHANGED ib_rest

\* get: std::lock_guard<std::mutex> lock(mutex_)
GetLock ==
    /\ ib_get.pc = "g_lock"
    /\ Lockable(mutex_)
    /\ mutex_' = "get"
    /\ ib_get' = [ib_get EXCEPT !.pc = "g_check",
                                !.due = IF ib_get.at < Len(pushes)
                                        THEN pushes[Len(pushes) - ib_get.at]
                                        ELSE <<>>]
    /\ UNCHANGED <<slots_, write_index_, image_count_, pushes, ib_push, call>>
    /\ UNCHANGED ib_rest

\* get: the three checks made under the lock; a failed one returns false
\* and releases the mutex
GetCheck ==
    /\ ib_get.pc = "g_check"
    /\ IF \/ image_count_ = 0
          \/ ib_get.at >= image_count_
          \/ ~slots_[actual_index(ib_get.at)].valid
          \/ slots_[actual_index(ib_get.at)].data = <<>>
       THEN /\ mutex_' = Nobody
            /\ call' = [op  |-> "get",
                        ret |-> [ok |-> FALSE, out_jpeg |-> ib_get.out],
                        arg |-> [relative_index |-> ib_get.at,
                                 out_jpeg       |-> ib_get.arg]]
            /\ ib_get' = Outside
       ELSE /\ ib_get' = [ib_get EXCEPT !.pc = "g_copy", !.k = actual_index(ib_get.at)]
            /\ UNCHANGED <<mutex_, call>>
    /\ UNCHANGED <<slots_, write_index_, image_count_, pushes, ib_push>>
    /\ UNCHANGED ib_rest

\* get: out_jpeg = slot.data
GetCopy ==
    /\ ib_get.pc = "g_copy"
    /\ LET data == slots_[ib_get.k].data
           done == ib_get.n
       IN  IF done < Len(data)
           THEN ib_get' = [ib_get EXCEPT !.out = CopyByte(@, data, done), !.n = @ + 1]
           ELSE ib_get' = [ib_get EXCEPT !.out = SubSeq(@, 1, Len(data)),
                                         !.pc = "g_unlock"]
    /\ UNCHANGED <<slots_, write_index_, image_count_, mutex_, pushes, ib_push, call>>
    /\ UNCHANGED ib_rest

\* get returns true: the lock_guard releases the mutex
GetReturn ==
    /\ ib_get.pc = "g_unlock"
    /\ mutex_' = Nobody
    /\ call' = [op  |-> "get",
                ret |-> [ok |-> TRUE, out_jpeg |-> ib_get.out],
                arg |-> [relative_index |-> ib_get.at, out_jpeg |-> ib_get.arg]]
    /\ ib_get' = Outside
    /\ UNCHANGED <<slots_, write_index_, image_count_, pushes, ib_push>>
    /\ UNCHANGED ib_rest

\* has_image is called: if (relative_index >= BUFFER_SIZE) return false
HasImageCall ==
    /\ ib_get.pc = "idle"
    /\ \E relative_index \in Indices :
           IF relative_index >= BUFFER_SIZE
           THEN /\ call' = [op |-> "has_image", ret |-> FALSE,
                            arg |-> [relative_index |-> relative_index]]
                /\ UNCHANGED ib_get
           ELSE /\ ib_get' = [Outside EXCEPT !.pc = "h_lock", !.at = relative_index]
                /\ UNCHANGED call
    /\ UNCHANGED <<slots_, write_index_, image_count_, mutex_, pushes, ib_push>>
    /\ UNCHANGED ib_rest

\* has_image: std::lock_guard<std::mutex> lock(mutex_)
HasImageLock ==
    /\ ib_get.pc = "h_lock"
    /\ Lockable(mutex_)
    /\ mutex_' = "has_image"
    /\ ib_get' = [ib_get EXCEPT !.pc = "h_return"]
    /\ UNCHANGED <<slots_, write_index_, image_count_, pushes, ib_push, call>>
    /\ UNCHANGED ib_rest

\* has_image: return relative_index < image_count_
HasImageReturn ==
    /\ ib_get.pc = "h_return"
    /\ mutex_' = Nobody
    /\ call' = [op |-> "has_image", ret |-> ib_get.at < image_count_,
                arg |-> [relative_index |-> ib_get.at]]
    /\ ib_get' = Outside
    /\ UNCHANGED <<slots_, write_index_, image_count_, pushes, ib_push>>
    /\ UNCHANGED ib_rest

NextBufferConc ==
    \/ PushCall \/ PushLock \/ PushAssign \/ PushValid \/ PushAdvance \/ PushCount
    \/ PushReturn
    \/ GetCall \/ GetLock \/ GetCheck \/ GetCopy \/ GetReturn
    \/ HasImageCall \/ HasImageLock \/ HasImageReturn

SpecBufferConc == Init /\ [][NextBufferConc]_vars

(***************************************************************************)
(* class FastCGIServer: start, stop and the server thread.                 *)
(***************************************************************************)
\* how many requests reach the socket in a run
MaxRequests == 2

\* how many images are stored while the server runs
MaxProduced == 1

\* what FCGX_GetParam and parse_image_index make of the requests that
\* arrive: no REQUEST_URI, an URI that names no index, and URIs that name
\* the latest and the oldest image
Requests ==
    {[uri |-> FALSE, image_index |-> -1], [uri |-> TRUE, image_index |-> -1],
     [uri |-> TRUE, image_index |-> 0], [uri |-> TRUE, image_index |-> BUFFER_SIZE - 1]}

\* the status handle_request answers a request with, and the image it sends
Response(r) ==
    IF ~r.uri THEN [status |-> 400, body |-> <<>>]
    ELSE IF r.image_index < 0 \/ r.image_index > 30 THEN [status |-> 404, body |-> <<>>]
    ELSE IF ~GetOutcome(r.image_index, <<>>).ok THEN [status |-> 503, body |-> <<>>]
    ELSE [status |-> 200, body |-> GetOutcome(r.image_index, <<>>).out_jpeg]

\* a request reaches the socket
RequestArrives ==
    /\ arrived < MaxRequests
    /\ \E r \in Requests : requests' = Append(requests, r)
    /\ arrived' = arrived + 1
    /\ UNCHANGED <<running_, server_thread_, f_stop, request, response, f_log>>
    /\ UNCHANGED <<ibvars, f_rest, call>>

\* bool FastCGIServer::start()
start ==
    /\ f_stop = "idle"
    /\ IF running_
       THEN UNCHANGED <<running_, server_thread_>>
       ELSE /\ running_' = TRUE
            /\ server_thread_' = "init_request"
    /\ f_log' = IF running_ THEN f_log ELSE "FastCGI: server started"
    /\ call' = [op |-> "start", ret |-> "true", arg |-> <<>>]
    /\ UNCHANGED <<f_stop, requests, arrived, request, response>>
    /\ UNCHANGED <<ibvars, f_rest>>

\* server_loop: FCGX_InitRequest
ServerInitRequest ==
    /\ server_thread_ = "init_request"
    /\ \E failed \in BOOLEAN :
           /\ server_thread_' = IF failed THEN "exited" ELSE "loop"
           /\ f_log' = IF failed THEN "FastCGI: FCGX_InitRequest failed" ELSE f_log
    /\ UNCHANGED <<running_, f_stop, requests, arrived, request, response>>
    /\ UNCHANGED <<ibvars, f_rest, call>>

\* server_loop: while (running_)
ServerLoop ==
    /\ server_thread_ = "loop"
    /\ server_thread_' = IF running_ THEN "accept" ELSE "exited"
    /\ UNCHANGED <<running_, f_stop, requests, arrived, request, response, f_log>>
    /\ UNCHANGED <<ibvars, f_rest, call>>

\* a request has reached the socket the thread waits on
AcceptReady(pending) == pending # <<>>

\* server_loop: FCGX_Accept_r returns 0; it returns once a request has
\* reached the socket
ServerAccept ==
    /\ server_thread_ = "accept"
    /\ AcceptReady(requests)
    /\ request' = Head(requests)
    /\ requests' = Tail(requests)
    /\ server_thread_' = "handle"
    /\ UNCHANGED <<running_, f_stop, arrived, response, f_log>>
    /\ UNCHANGED <<ibvars, f_rest, call>>

\* server_loop: FCGX_Accept_r returns a negative result: continue
ServerAcceptFails ==
    /\ server_thread_ = "accept"
    /\ server_thread_' = "loop"
    /\ f_log' = IF running_ THEN "FastCGI: FCGX_Accept_r returned" ELSE f_log
    /\ UNCHANGED <<running_, f_stop, requests, arrived, request, response>>
    /\ UNCHANGED <<ibvars, f_rest, call>>

\* server_loop: handle_request(&request)
ServerHandle ==
    /\ server_thread_ = "handle"
    /\ response' = Response(request)
    /\ server_thread_' = "finish"
    /\ UNCHANGED <<running_, f_stop, requests, arrived, request, f_log>>
    /\ UNCHANGED <<ibvars, f_rest, call>>

\* server_loop: FCGX_Finish_r(&request)
ServerFinish ==
    /\ server_thread_ = "finish"
    /\ server_thread_' = "loop"
    /\ UNCHANGED <<running_, f_stop, requests, arrived, request, response, f_log>>
    /\ UNCHANGED <<ibvars, f_rest, call>>

\* void FastCGIServer::stop(): if (!running_) return
StopEnter ==
    /\ f_stop = "idle"
    /\ IF running_
       THEN f_stop' = "clear" /\ UNCHANGED call
       ELSE /\ call' = [op |-> "stop", ret |-> "void", arg |-> <<>>]
            /\ UNCHANGED f_stop
    /\ UNCHANGED <<running_, server_thread_, requests, arrived, request, response, f_log>>
    /\ UNCHANGED <<ibvars, f_rest>>

\* stop: running_ = false
StopClear ==
    /\ f_stop = "clear"
    /\ running_' = FALSE
    /\ f_stop' = "join"
    /\ UNCHANGED <<server_thread_, requests, arrived, request, response, f_log>>
    /\ UNCHANGED <<ibvars, f_rest, call>>

\* stop: if (server_thread_.joinable()) server_thread_.join(): join returns
\* once the thread has left server_loop
StopJoin ==
    /\ f_stop = "join"
    /\ server_thread_ = "exited"
    /\ server_thread_' = "joined"
    /\ f_stop' = "return"
    /\ UNCHANGED <<running_, requests, arrived, request, response, f_log>>
    /\ UNCHANGED <<ibvars, f_rest, call>>

\* stop returns
StopReturn ==
    /\ f_stop = "return"
    /\ f_stop' = "idle"
    /\ f_log' = "FastCGI: server stopped"
    /\ call' = [op |-> "stop", ret |-> "void", arg |-> <<>>]
    /\ UNCHANGED <<running_, server_thread_, requests, arrived, request, response>>
    /\ UNCHANGED <<ibvars, f_rest>>

\* the producer stores an image while the server runs
ProducerPush ==
    /\ Len(pushes) < MaxProduced
    /\ CallPush

ServerThread == ServerInitRequest \/ ServerLoop \/ ServerAccept \/ ServerHandle
                    \/ ServerFinish

StopThread == StopEnter \/ StopClear \/ StopJoin \/ StopReturn

NextServer ==
    \/ start \/ RequestArrives \/ ProducerPush
    \/ ServerInitRequest \/ ServerLoop \/ ServerAccept \/ ServerAcceptFails
    \/ ServerHandle \/ ServerFinish
    \/ StopEnter \/ StopClear \/ StopJoin \/ StopReturn

SpecServer == Init /\ [][NextServer]_vars

\* the server thread and the thread inside stop keep running; nothing makes
\* a request arrive
SpecServerLive == SpecServer /\ WF_fvars(ServerThread) /\ WF_fvars(StopThread)

(***************************************************************************)
(* class RTSPServer: push_frame on the main thread, the need-data callback *)
(* on the streaming thread; each statement is a step.                      *)
(***************************************************************************)
\* GST_SECOND, in nanoseconds
GST_SECOND == 1000000000

\* how many frames a run pushes
MaxStored == 3

\* how many buffers the callbacks of a run hand out
MaxHanded == 3

\* config_.fps of the servers a run starts
Rates == {15, 30}

\* the bytes cv::imencode(".jpg", ...) makes of frame f
Jpeg(f) == <<255, 216, f>>

\* timestamp_ advanced by two durations
AdvanceTwice(timestamp, duration) == timestamp + duration + duration

\* timestamp_ += duration
Advance(timestamp, duration) == timestamp + duration

\* gst_util_uint64_scale_int(1, GST_SECOND, config_.fps)
Duration(fps) == GST_SECOND \div fps

\* bool RTSPServer::init(const RTSPServerConfig&): config_ = config
RtspInit ==
    /\ ~rtsp_running_
    /\ r_need.pc = "idle"
    /\ handed = <<>>
    /\ \E fps \in Rates : rtsp_fps' = fps
    /\ call' = [op |-> "rtsp_init", ret |-> "true", arg |-> <<>>]
    /\ UNCHANGED <<rtsp_running_, frame_mutex_, current_jpeg_, frame_available_,
                   timestamp_, stored, handed, r_push, r_need>>
    /\ UNCHANGED r_rest

\* bool RTSPServer::start()
RtspStart ==
    /\ IF rtsp_running_
       THEN /\ call' = [op |-> "rtsp_start", ret |-> "true", arg |-> <<>>]
            /\ UNCHANGED rtsp_running_
       ELSE \E attached \in BOOLEAN :
               /\ rtsp_running_' = attached
               /\ call' = [op  |-> "rtsp_start",
                           ret |-> IF attached THEN "true" ELSE "false",
                           arg |-> <<>>]
    /\ UNCHANGED <<frame_mutex_, current_jpeg_, frame_available_, timestamp_, rtsp_fps,
                   stored, handed, r_push, r_need>>
    /\ UNCHANGED r_rest

\* void RTSPServer::stop()
RtspStop ==
    /\ rtsp_running_' = FALSE
    /\ call' = [op |-> "rtsp_stop", ret |-> "void", arg |-> <<>>]
    /\ UNCHANGED <<frame_mutex_, current_jpeg_, frame_available_, timestamp_, rtsp_fps,
                   stored, handed, r_push, r_need>>
    /\ UNCHANGED r_rest

\* push_frame is called: the check of running_ and cv::imencode
PushFrameCall ==
    /\ r_push.pc = "idle"
    /\ Len(stored) < MaxStored
    /\ \E f \in Frames, encoded \in BOOLEAN :
           IF ~rtsp_running_ \/ ~encoded
           THEN /\ call' = [op |-> "push_frame", ret |-> "false", arg |-> <<f>>]
                /\ UNCHANGED r_push
           ELSE /\ r_push' = [Outside EXCEPT !.pc = "lock", !.arg = <<f>>,
                                             !.out = Jpeg(f)]
                /\ UNCHANGED call
    /\ UNCHANGED <<rtsp_running_, frame_mutex_, current_jpeg_, frame_available_,
                   timestamp_, rtsp_fps, stored, handed, r_need>>
    /\ UNCHANGED r_rest

\* push_frame: std::lock_guard<std::mutex> lock(frame_mutex_)
PushFrameLock ==
    /\ r_push.pc = "lock"
    /\ Lockable(frame_mutex_)
    /\ frame_mutex_' = "push_frame"
    /\ r_push' = [r_push EXCEPT !.pc = "move"]
    /\ UNCHANGED <<rtsp_running_, current_jpeg_, frame_available_, timestamp_, rtsp_fps,
                   stored, handed, r_need, call>>
    /\ UNCHANGED r_rest

\* push_frame: current_jpeg_ = std::move(jpeg_buffer)
PushFrameMove ==
    /\ r_push.pc = "move"
    /\ current_jpeg_' = r_push.out
    /\ stored' = Append(stored, r_push.out)
    /\ r_push' = [r_push EXCEPT !.pc = "flag", !.out = <<>>]
    /\ UNCHANGED <<rtsp_running_, frame_mutex_, frame_available_, timestamp_, rtsp_fps,
                   handed, r_need, call>>
    /\ UNCHANGED r_rest

\* push_frame: frame_available_ = true
PushFrameFlag ==
    /\ r_push.pc = "flag"
    /\ frame_available_' = TRUE
    /\ r_push' = [r_push EXCEPT !.pc = "unlock"]
    /\ UNCHANGED <<rtsp_running_, frame_mutex_, current_jpeg_, timestamp_, rtsp_fps,
                   stored, handed, r_need, call>>
    /\ UNCHANGED r_rest

\* push_frame returns true: the lock_guard releases the mutex
PushFrameReturn ==
    /\ r_push.pc = "unlock"
    /\ frame_mutex_' = Nobody
    /\ call' = [op |-> "push_frame", ret |-> "true", arg |-> r_push.arg]
    /\ r_push' = Outside
    /\ UNCHANGED <<rtsp_running_, current_jpeg_, frame_available_, timestamp_, rtsp_fps,
                   stored, handed, r_need>>
    /\ UNCHANGED r_rest

\* the appsrc element signals need-data: on_need_data is called
NeedDataCall ==
    /\ r_need.pc = "idle"
    /\ Len(handed) < MaxHanded
    /\ r_need' = [Outside EXCEPT !.pc = "lock"]
    /\ UNCHANGED <<rtsp_running_, frame_mutex_, current_jpeg_, frame_available_,
                   timestamp_, rtsp_fps, stored, handed, r_push, call>>
    /\ UNCHANGED r_rest

\* on_need_data: std::lock_guard<std::mutex> lock(frame_mutex_)
NeedDataLock ==
    /\ r_need.pc = "lock"
    /\ Lockable(frame_mutex_)
    /\ frame_mutex_' = "on_need_data"
    /\ r_need' = [r_need EXCEPT !.pc = "check",
                                !.due = IF stored = <<>> THEN <<>>
                                        ELSE stored[Len(stored)]]
    /\ UNCHANGED <<rtsp_running_, current_jpeg_, frame_available_, timestamp_, rtsp_fps,
                   stored, handed, r_push, call>>
    /\ UNCHANGED r_rest

\* on_need_data: if (current_jpeg_.empty()) return
NeedDataCheck ==
    /\ r_need.pc = "check"
    /\ IF current_jpeg_ = <<>>
       THEN /\ frame_mutex_' = Nobody
            /\ call' = [op |-> "on_need_data", ret |-> "nothing", arg |-> <<>>]
            /\ r_need' = Outside
       ELSE /\ r_need' = [r_need EXCEPT !.pc = "copy"]
            /\ UNCHANGED <<frame_mutex_, call>>
    /\ UNCHANGED <<rtsp_running_, current_jpeg_, frame_available_, timestamp_, rtsp_fps,
                   stored, handed, r_push>>
    /\ UNCHANGED r_rest

\* on_need_data: jpeg_data = current_jpeg_
NeedDataCopy ==
    /\ r_need.pc = "copy"
    /\ IF r_need.n < Len(current_jpeg_)
       THEN r_need' = [r_need EXCEPT !.out = CopyByte(@, current_jpeg_, r_need.n),
                                     !.n = @ + 1]
       ELSE r_need' = [r_need EXCEPT !.out = SubSeq(@, 1, Len(current_jpeg_)),
                                     !.pc = "flag"]
    /\ UNCHANGED <<rtsp_running_, frame_mutex_, current_jpeg_, frame_available_,
                   timestamp_, rtsp_fps, stored, handed, r_push, call>>
    /\ UNCHANGED r_rest

\* on_need_data: frame_available_ = false, and the end of the locked block
NeedDataFlag ==
    /\ r_need.pc = "flag"
    /\ frame_available_' = FALSE
    /\ frame_mutex_' = Nobody
    /\ r_need' = [r_need EXCEPT !.pc = "stamp"]
    /\ UNCHANGED <<rtsp_running_, current_jpeg_, timestamp_, rtsp_fps, stored, handed,
                   r_push, call>>
    /\ UNCHANGED r_rest

\* on_need_data: the buffer is filled, GST_BUFFER_PTS(buffer) = timestamp_,
\* GST_BUFFER_DURATION(buffer) = duration, timestamp_ += duration
NeedDataStamp ==
    /\ r_need.pc = "stamp"
    /\ r_need' = [r_need EXCEPT !.pc = "emit", !.at = timestamp_, !.k = Duration(rtsp_fps)]
    /\ timestamp_' = Advance(timestamp_, Duration(rtsp_fps))
    /\ UNCHANGED <<rtsp_running_, frame_mutex_, current_jpeg_, frame_available_,
                   rtsp_fps, stored, handed, r_push, call>>
    /\ UNCHANGED r_rest

\* on_need_data: g_signal_emit_by_name(appsrc, "push-buffer", buffer, &ret)
NeedDataEmit ==
    /\ r_need.pc = "emit"
    /\ handed' = Append(handed, [data |-> r_need.out, pts |-> r_need.at,
                                 duration |-> r_need.k, due |-> r_need.due])
    /\ call' = [op |-> "on_need_data", ret |-> "buffer", arg |-> <<>>]
    /\ r_need' = Outside
    /\ UNCHANGED <<rtsp_running_, frame_mutex_, current_jpeg_, frame_available_,
                   timestamp_, rtsp_fps, stored, r_push>>
    /\ UNCHANGED r_rest

NextRtsp ==
    \/ RtspInit \/ RtspStart \/ RtspStop
    \/ PushFrameCall \/ PushFrameLock \/ PushFrameMove \/ PushFrameFlag \/ PushFrameReturn
    \/ NeedDataCall \/ NeedDataLock \/ NeedDataCheck \/ NeedDataCopy \/ NeedDataFlag
    \/ NeedDataStamp \/ NeedDataEmit

SpecRtsp == Init /\ [][NextRtsp]_vars

(***************************************************************************)
(* main: the processing loop.                                              *)
(***************************************************************************)
\* how many frames the image provider delivers in a run
MaxDelivered == 3

\* how many entries the record of what the loop did takes
MaxLog == 12

\* a failed frame sent back to the head of the loop
AfterProcessContinue(ok) == IF ok THEN "push" ELSE "while"

\* if (!dewarper.process(nv12_mat, output_bgr)) goto unref_buffer
AfterProcess(ok) == IF ok THEN "push" ELSE "unref"

\* SIGTERM or SIGINT: shutdown_requested = 1
HandleSignal ==
    /\ ~shutdown_requested
    /\ shutdown_requested' = TRUE
    /\ UNCHANGED <<m_pc, vdo_buf, delivered, m_log>>
    /\ UNCHANGED m_rest

\* while (!shutdown_requested)
MainWhile ==
    /\ m_pc = "while"
    /\ m_pc' = IF shutdown_requested THEN "shutdown" ELSE "get"
    /\ UNCHANGED <<shutdown_requested, vdo_buf, delivered, m_log>>
    /\ UNCHANGED m_rest

\* g_autoptr(VdoBuffer) vdo_buf = img_provider_get_frame(img_provider);
\* if (!vdo_buf) continue
MainGetFrame ==
    /\ m_pc = "get"
    /\ \E got \in BOOLEAN :
           IF got /\ delivered < MaxDelivered
           THEN /\ vdo_buf' = delivered + 1
                /\ delivered' = delivered + 1
                /\ m_log' = Append(m_log, [event |-> "get", buf |-> delivered + 1])
                /\ m_pc' = "process"
           ELSE /\ vdo_buf' = NoBuffer
                /\ m_log' = Append(m_log, [event |-> "none", buf |-> NoBuffer])
                /\ m_pc' = "while"
                /\ UNCHANGED delivered
    /\ Len(m_log) < MaxLog
    /\ UNCHANGED shutdown_requested
    /\ UNCHANGED m_rest

\* nv12_mat.data = ...; dewarper.process(nv12_mat, output_bgr)
MainProcess ==
    /\ m_pc = "process"
    /\ \E ok \in BOOLEAN :
           /\ m_log' = Append(m_log, [event |-> IF ok THEN "dewarped" ELSE "failed",
                                      buf   |-> vdo_buf])
           /\ m_pc' = AfterProcess(ok)
    /\ UNCHANGED <<shutdown_requested, vdo_buf, delivered>>
    /\ UNCHANGED m_rest

\* rtsp_server.push_frame(output_bgr)
MainPushFrame ==
    /\ m_pc = "push"
    /\ m_log' = Append(m_log, [event |-> "push", buf |-> vdo_buf])
    /\ m_pc' = "unref"
    /\ UNCHANGED <<shutdown_requested, vdo_buf, delivered>>
    /\ UNCHANGED m_rest

\* unref_buffer: vdo_stream_buffer_unref(img_provider->vdo_stream, &vdo_buf,
\* &vdo_error): the buffer goes back to the stream and vdo_buf is cleared
MainUnref ==
    /\ m_pc = "unref"
    /\ m_log' = Append(m_log, [event |-> "unref", buf |-> vdo_buf])
    /\ vdo_buf' = NoBuffer
    /\ m_pc' = "while"
    /\ UNCHANGED <<shutdown_requested, delivered>>
    /\ UNCHANGED m_rest

\* the statements after the loop: rtsp_server.stop() ... return EXIT_SUCCESS
MainShutdown ==
    /\ m_pc = "shutdown"
    /\ m_pc' = "exited"
    /\ m_log' = Append(m_log, [event |-> "exit", buf |-> vdo_buf])
    /\ UNCHANGED <<shutdown_requested, vdo_buf, delivered>>
    /\ UNCHANGED m_rest

NextMain ==
    \/ HandleSignal \/ MainWhile \/ MainGetFrame \/ MainProcess \/ MainPushFrame
    \/ MainUnref \/ MainShutdown

SpecMain == Init /\ [][NextMain]_vars

(***************************************************************************)
(* Properties.                                                             *)
(***************************************************************************)
\* the data-model invariant of a configuration
Valid(c) ==
    /\ c.input_width > 0 /\ c.input_height > 0
    /\ c.output_width > 0 /\ c.output_height > 0
    /\ c.center_x >= 0 /\ c.center_x <= FScale
    /\ c.center_y >= 0 /\ c.center_y <= FScale
    /\ c.input_fov > 0 /\ c.input_fov <= FromInt(360)
    /\ c.rectilinear_fov > 0 /\ c.rectilinear_fov <= FromInt(360)

\* a configure call has returned and none is in progress: config_ is the
\* configuration just installed
Installed == configured /\ b_pc = "idle"

\* the entry of the two grids for the pixel with index i
Cell(i) == <<map_x_.data[i + 1], map_y_.data[i + 1]>>

\* the values the loop body of the builder of c.projection computes
Expected(c) ==
    CASE c.projection = "EQUIRECTANGULAR" -> EquirectTable[c]
      [] c.projection = "RECTILINEAR" -> RectTable[c]
      [] c.projection = "CYLINDRICAL" -> CylTable[c]
      [] c.projection = "FISHEYE_UNDISTORT" -> UndistortTable[c]

\* theta of pixel i exceeds half the input field of view
Beyond(c, i) == FGt(AnglesTable[c][i][1], HalfFov(c))

\* C1: as long as no configure call has returned success, every process
\* call returns false and the caller's output image is never written
C1_NotReadyBeforeConfigure ==
    ~configured =>
        /\ call.op = "process" => call.ret = "false"
        /\ output_bgr \in CallerImages

C1_Witness == ~configured /\ call.op = "process" /\ call.ret = "false" /\ call.arg = MaxFrames

\* C2: a process call that ran next to a reconfiguration has sampled all its
\* output pixels from one complete table, the one of some configuration
C2_OneCompleteTable ==
    (p_pc = "idle" /\ call.op = "process" /\ call.ret = "true") =>
        \E c \in ConcConfigs :
            output_bgr = Remap(call.arg, build_lookup_tables(c, <<EmptyMat, EmptyMat>>))

\* C3: a configure call with output width 0 or output height 0 returns
\* failure
C3_ZeroSizeRejected ==
    (call.op \in {"init", "update_config"}
        /\ (call.arg.output_width = 0 \/ call.arg.output_height = 0))
    => call.ret = "false"

\* C4: once a configure call has returned success (init or update_config),
\* a process call under a valid installed configuration returns an output
\* frame
C4_ReadyOnceConfigured ==
    (configured /\ call.op = "process" /\ Valid(config_)) => call.ret = "true"

\* C5: the installed configuration satisfies the data-model invariant
C5_InstalledConfigValid == configured => Valid(config_)

\* C6: after a configure call has returned, both grids have output_height
\* rows and output_width columns of the configuration just installed
C6_TableShape ==
    Installed =>
        /\ map_x_.rows = config_.output_height /\ map_x_.cols = config_.output_width
        /\ map_y_.rows = config_.output_height /\ map_y_.cols = config_.output_width
        /\ Len(map_x_.data) = PixelCount(config_)
        /\ Len(map_y_.data) = PixelCount(config_)

C6_Witness ==
    /\ Installed
    /\ config_.projection = "FISHEYE_UNDISTORT"
    /\ map_x_.rows = 1 /\ map_x_.cols = MaxOut
    /\ map_y_.rows = 1 /\ map_y_.cols = MaxOut

\* C7: after a configure call has returned, every cell of both grids holds
\* the value computed for the configuration just installed: none is
\* unwritten, none is left from an earlier configuration
C7_EveryCellWritten ==
    Installed =>
        \A i \in Pixels(config_) :
            /\ Cell(i) = Expected(config_)[i]
            /\ Cell(i)[1] # Garbage /\ Cell(i)[2] # Garbage

C7_Witness ==
    /\ Installed
    /\ call.op = "update_config"
    /\ PixelCount(config_) = MaxOut * MaxOut
    /\ \A i \in Pixels(config_) : Cell(i) = Expected(config_)[i]

C9_NoSentinel ==
    (Installed /\ Valid(config_) /\ config_.projection \in {"EQUIRECTANGULAR", "CYLINDRICAL"}) =>
        \A i \in Pixels(config_) : Cell(i) # Sentinel

\* C9, amended: the equirectangular build applies no field-of-view check:
\* every entry is the computed sample coordinate, also where theta exceeds
\* half the input field of view
C9_EquirectNoCull ==
    (Installed /\ config_.projection = "EQUIRECTANGULAR") =>
        \A i \in Pixels(config_) : Cell(i) = PointTable[config_][i]

C9_Witness ==
    /\ Installed
    /\ config_.projection = "EQUIRECTANGULAR"
    /\ \E i \in Pixels(config_) : Beyond(config_, i) /\ Cell(i) # Sentinel

\* C10: the undistortion build applies no check and no clamp: every entry is
\* the computed pair (f_in * x_dist + cx, f_in * y_dist + cy), also outside
\* the input frame
C10_UndistortNoCull ==
    (Installed /\ config_.projection = "FISHEYE_UNDISTORT") =>
        \A i \in Pixels(config_) :
            Cell(i) = PointTable[config_][i]

C10_Witness ==
    /\ Installed
    /\ config_.projection = "FISHEYE_UNDISTORT"
    /\ \E i \in Pixels(config_) : IsFinite(Cell(i)[1]) /\ Cell(i)[1] < 0 /\ Cell(i)[2] < 0

\* two floats that differ by rounding only
Close(a, b) == IsFinite(a) /\ IsFinite(b) /\ Abs(a - b) <= 4

\* (fIn / fOut) * (u_out - cx) + cx and (fIn / fOut) * (v_out - cy) + cy
RadialScale(c, u_out, v_out) ==
    <<FAdd[FMul[FDiv[c.focal_length, f_out(c)], FSub[FromInt(u_out), cx(c)]], cx(c)],
      FAdd[FMul[FDiv[c.focal_length, f_out(c)], FSub[FromInt(v_out), cy(c)]], cy(c)]>>

\* C11: with k1 = k2 = k3 = k4 = 0 every entry of the undistortion table is
\* ((fIn / fOut) (u_out - cx) + cx, (fIn / fOut) (v_out - cy) + cy) up to
\* rounding, and the pixel at the optical centre maps to (cx, cy) exactly
C11_ZeroCoefficientsScale ==
    (/\ Installed /\ Valid(config_)
     /\ config_.projection = "FISHEYE_UNDISTORT"
     /\ config_.k1 = 0 /\ config_.k2 = 0 /\ config_.k3 = 0 /\ config_.k4 = 0)
    => \A i \in Pixels(config_) :
          /\ Close(Cell(i)[1], RadialScale(config_, PixelX(config_, i), PixelY(config_, i))[1])
          /\ Close(Cell(i)[2], RadialScale(config_, PixelX(config_, i), PixelY(config_, i))[2])
          /\ (FromInt(PixelX(config_, i)) = cx(config_)
                  /\ FromInt(PixelY(config_, i)) = cy(config_))
             => Cell(i) = <<cx(config_), cy(config_)>>

\* the index of the output centre pixel (output_width / 2, output_height / 2)
CentreIndex(c) == (c.output_height \div 2) * c.output_width + c.output_width \div 2

\* the installed table is the equirectangular table of a valid configuration
\* with pan = tilt = 0 and even output width and height
StraightAhead ==
    /\ Installed /\ Valid(config_)
    /\ config_.projection = "EQUIRECTANGULAR"
    /\ config_.pan_angle = 0 /\ config_.tilt_angle = 0
    /\ config_.output_width % 2 = 0 /\ config_.output_height % 2 = 0

\* C12: in equirectangular mode with pan = tilt = 0 and even output width
\* and height, the entry of the output centre pixel is exactly the optical
\* centre (cx, cy), for every configuration of the data model
C12_CentreMapsToCentre ==
    StraightAhead => Cell(CentreIndex(config_)) = <<cx(config_), cy(config_)>>

C12_Witness ==
    /\ StraightAhead
    /\ config_.input_width # config_.input_height
    /\ Cell(CentreIndex(config_)) = <<cx(config_), cy(config_)>>
    /\ Cell(0) # <<cx(config_), cy(config_)>>

\* the table the builder produces for the configuration c
TableOf(c) == build_lookup_tables(c, <<EmptyMat, EmptyMat>>)

\* C13: once a configure call has returned success, the installed table is
\* the table the builder produces for the installed configuration, and
\* every process call that has returned since has sampled its frame from it
C13_SamplesInstalledTable ==
    (configured /\ Valid(config_)) =>
        /\ <<map_x_, map_y_>> = TableOf(config_)
        /\ call.op = "process" =>
              /\ call.ret = "true"
              /\ output_bgr = Remap(call.arg, TableOf(config_))

\* C14: a process call, whatever it returns, leaves the installed
\* configuration, both grids and the ready flag as they were
C14_ProcessReadsOnly ==
    [][call'.op = "process" =>
          /\ config_' = config_
          /\ map_x_' = map_x_
          /\ map_y_' = map_y_
          /\ initialized_' = initialized_]_vars

C14_Witness ==
    /\ call.op = "process" /\ call.ret = "true"
    /\ bgr_temp_ = MaxFrames
    /\ initialized_
    /\ ~MatEmpty(map_x_)
    /\ <<map_x_, map_y_>> = TableOf(config_)

\* C15: a process call on an engine that is not ready returns false for
\* every input frame, and a process call that returns false leaves the
\* caller's output image and the engine as they were
C15_NotReadyNoOutput ==
    [][call'.op = "process" =>
          /\ ~initialized_ => call'.ret = "false"
          /\ call'.ret = "false" =>
                /\ output_bgr' = output_bgr
                /\ bgr_temp_' = bgr_temp_
                /\ <<config_, map_x_, map_y_, initialized_>>'
                       = <<config_, map_x_, map_y_, initialized_>>]_vars

C15_Witness ==
    /\ call.op = "process" /\ call.ret = "false"
    /\ ~initialized_
    /\ ~MatEmpty(output_bgr)
    /\ \A i \in 1..Len(output_bgr.data) : output_bgr.data[i] = StalePixel

\* C16: after a process call has returned true the output image has
\* output_height x output_width pixels of the installed configuration, and
\* every one of them was sampled by this call from the frame it was given
C16_WholeFrameWritten ==
    (call.op = "process" /\ call.ret = "true") =>
        /\ output_bgr.rows = config_.output_height
        /\ output_bgr.cols = config_.output_width
        /\ Len(output_bgr.data) = PixelCount(config_)
        /\ \A i \in Pixels(config_) :
              /\ output_bgr.data[i + 1].frame = call.arg
              /\ output_bgr.data[i + 1].at = Cell(i)

C16_Witness ==
    /\ call.op = "process" /\ call.ret = "true" /\ call.arg = MaxFrames
    /\ PixelCount(config_) = MaxOut * MaxOut
    /\ \E i \in Pixels(config_) : Cell(i) = Sentinel /\ output_bgr.data[i + 1].frame = MaxFrames
    /\ \E i \in Pixels(config_) : Cell(i) # Sentinel /\ output_bgr.data[i + 1].frame = MaxFrames

\* a finite table entry
FiniteEntry(at) == IsFinite(at[1]) /\ IsFinite(at[2])

\* the coordinate lies in the extent of the frame, from the centre of its
\* first pixel to the centre of its last
InExtent(at) ==
    /\ at[1] >= 0 /\ at[1] <= FromInt(FrameWidth - 1)
    /\ at[2] >= 0 /\ at[2] <= FromInt(FrameHeight - 1)

\* the coordinate lies a whole pixel or more beyond the frame
FarOutside(at) ==
    \/ at[1] <= FromInt(-1) \/ at[1] >= FromInt(FrameWidth)
    \/ at[2] <= FromInt(-1) \/ at[2] >= FromInt(FrameHeight)

\* the bilinear interpolation of the four pixels of frame f nearest to a
\* coordinate of the extent
FourNearest(f, at) ==
    Weighted[ReplicatedPixel(f, Floor[at[1]], Floor[at[2]]),
             ReplicatedPixel(f, Floor[at[1]] + 1, Floor[at[2]]),
             ReplicatedPixel(f, Floor[at[1]], Floor[at[2]] + 1),
             ReplicatedPixel(f, Floor[at[1]] + 1, Floor[at[2]] + 1),
             at[1] - Floor[at[1]] * FScale, at[2] - Floor[at[2]] * FScale]

\* a process call has returned an output frame under a valid configuration
Rectified == call.op = "process" /\ call.ret = "true" /\ Valid(config_)

\* C17 as stated: an output pixel whose entry is the sentinel or lies
\* outside the extent of the frame is black, every other output pixel is the
\* bilinear interpolation of the four frame pixels nearest to its entry
C17_BlackOrBilinear ==
    Rectified =>
        \A i \in Pixels(config_) :
            FiniteEntry(Cell(i)) =>
                output_bgr.data[i + 1].bgr
                    = IF Cell(i) = Sentinel \/ ~InExtent(Cell(i))
                      THEN BorderColour
                      ELSE FourNearest(call.arg, Cell(i))

\* C17, amended: the pixel is the bilinear blend of the four positions
\* around its entry, a position outside the frame counting as black.  It is
\* black for the sentinel and for an entry a whole pixel or more beyond the
\* frame, the interpolation of four frame pixels for an entry in the extent,
\* and a blend of frame pixels with black for an entry less than a pixel
\* beyond the extent
C17_BlendWithBorder ==
    Rectified =>
        \A i \in Pixels(config_) :
            FiniteEntry(Cell(i)) =>
                /\ Cell(i) = Sentinel => output_bgr.data[i + 1].bgr = BorderColour
                /\ FarOutside(Cell(i)) => output_bgr.data[i + 1].bgr = BorderColour
                /\ InExtent(Cell(i))
                      => output_bgr.data[i + 1].bgr = FourNearest(call.arg, Cell(i))
                /\ output_bgr.data[i + 1].bgr
                      = Bilinear(call.arg, Cell(i)[1], Cell(i)[2])

C17_Witness ==
    /\ Rectified
    /\ \E i \in Pixels(config_) :
          /\ FiniteEntry(Cell(i)) /\ ~InExtent(Cell(i)) /\ ~FarOutside(Cell(i))
          /\ output_bgr.data[i + 1].bgr # BorderColour
          /\ output_bgr.data[i + 1].bgr < FourNearest(call.arg, Cell(i))
    /\ \E i \in Pixels(config_) :
          /\ InExtent(Cell(i))
          /\ Cell(i)[1] % FScale # 0
          /\ output_bgr.data[i + 1].bgr = FourNearest(call.arg, Cell(i))

\* what a process call makes of a table and a frame when the two alone
\* decide it: not ready without a table, the remapped frame with one
RectifyOf(maps, f) ==
    IF MatEmpty(maps[1]) THEN [ret |-> "false", out |-> EmptyMat]
    ELSE [ret |-> "true", out |-> Remap(f, maps)]

\* C18: the table a configure call leaves is a function of its
\* configuration alone, and the outcome and the output frame of a process
\* call are a function of the installed table and the input frame alone
C18_Deterministic ==
    (configured => Valid(config_)) =>
        /\ call.op \in {"init", "update_config"} => <<map_x_, map_y_>> = TableOf(call.arg)
        /\ call.op = "process" =>
              /\ call.ret = RectifyOf(<<map_x_, map_y_>>, call.arg).ret
              /\ call.ret = "true"
                    => output_bgr = RectifyOf(<<map_x_, map_y_>>, call.arg).out

\* the tokens that name a projection of the tag set
ProjectionTokens == {"equirectangular", "rectilinear", "cylindrical", "fisheye_undistort"}

\* C19: parse_lens_type maps "dual_fisheye" to the dual-fisheye tag,
\* "panoramic" to the panoramic tag and every other string to the
\* plain-fisheye tag; parse_projection_type maps every string that is no
\* projection token to the fisheye-undistort tag; both return a tag for
\* every string
C19_ParsingTotal ==
    call.op = "parse" =>
        /\ call.ret.lens_type \in LensTypes
        /\ call.ret.projection \in ProjectionTypes
        /\ call.ret.lens_type =
              CASE call.arg.lens_type_str = "dual_fisheye" -> "DUAL_FISHEYE"
                [] call.arg.lens_type_str = "panoramic" -> "PANORAMIC"
                [] OTHER -> "FISHEYE"
        /\ call.arg.projection_str \notin ProjectionTokens
              => call.ret.projection = "FISHEYE_UNDISTORT"

C19_Witness ==
    /\ call.op = "parse"
    /\ call.arg.lens_type_str = "Dual_Fisheye"
    /\ call.arg.projection_str = "stereographic"
    /\ call.ret.lens_type = "FISHEYE"
    /\ call.ret.projection = "FISHEYE_UNDISTORT"

\* what the loop iteration of the builder of c.projection for pixel (x, y)
\* divides by
Divisors(c, x, y) ==
    CASE c.projection = "EQUIRECTANGULAR"   -> EquirectDivisors(c, x, y)
      [] c.projection = "RECTILINEAR"       -> RectDivisors(c, x, y)
      [] c.projection = "CYLINDRICAL"       -> CylDivisors(c, x, y)
      [] c.projection = "FISHEYE_UNDISTORT" -> UndistortDivisors(c, x, y)

\* C20: the build loop has no failure path: for a configuration of the data
\* model that configure accepted, no iteration of the loop divides by zero:
\* f_out, fov_rad / 2, the divisor of the rectilinear focal, focal, the ray
\* length, the output width and height and, past its guard, r_out are
\* all nonzero
C20_NoDivisionByZero ==
    (Installed /\ Valid(config_)) =>
        \A y \in 0 .. config_.output_height - 1 :
            \A x \in 0 .. config_.output_width - 1 :
                0 \notin Divisors(config_, x, y)

\* the image of the (i+1)-th most recent push
Recent(i) == pushes[Len(pushes) - i]

\* how many images the buffer holds after the pushes made so far
Held == Min(Len(pushes), BUFFER_SIZE)

\* C22: get returns images by age: after n >= 1 pushes, for every relative
\* index i < min(n, 31), get(i) returns true and fills the caller's vector
\* with exactly the bytes of the (i+1)-th most recent push
C22_GetByAge ==
    \A i \in 0 .. BUFFER_SIZE - 1 : \A out_jpeg \in CallerVectors :
        i < Held => GetOutcome(i, out_jpeg) = [ok |-> TRUE, out_jpeg |-> Recent(i)]

\* C23: the buffer keeps only the most recent 31 images: after n pushes
\* image_count_ = min(n, 31) and write_index_ = n mod 31, the slots hold
\* exactly the last min(n, 31) images pushed, each push beyond the 31st
\* having replaced the oldest one, and get(i) returns false, leaving the
\* caller's vector alone, for every i >= min(n, 31)
C23_KeepsLatest ==
    /\ image_count_ = Held
    /\ write_index_ = Len(pushes) % BUFFER_SIZE
    /\ \A i \in 0 .. BUFFER_SIZE - 1 :
           IF i < Held
           THEN slots_[actual_index(i)] = [data |-> Recent(i), valid |-> TRUE]
           ELSE slots_[actual_index(i)] = [data |-> <<>>, valid |-> FALSE]
    /\ \A i \in 0 .. BUFFER_SIZE + 1 : \A out_jpeg \in CallerVectors :
           i >= Held => GetOutcome(i, out_jpeg) = [ok |-> FALSE, out_jpeg |-> out_jpeg]

\* more than 31 images have been pushed, the last call was a push, and the
\* slot it wrote held the oldest image
C23_Witness ==
    /\ Len(pushes) > BUFFER_SIZE
    /\ call.op = "push"
    /\ slots_[latest_index].data = Recent(0)
    /\ Recent(0) # <<>>
    /\ \A i \in 0 .. BUFFER_SIZE - 1 : Recent(BUFFER_SIZE) # slots_[i].data

\* C28: has_image agrees with get: in every state pushes lead to, pushes of
\* zero bytes included, has_image(i) returns true exactly when get(i) does
C28_HasImageAgreesWithGet ==
    \A i \in 0 .. BUFFER_SIZE + 1 : \A out_jpeg \in CallerVectors :
        HasImageOutcome(i) = GetOutcome(i, out_jpeg).ok

\* the push thread is between taking and releasing the mutex
InPush == ib_push.pc \in {"assign", "valid", "advance", "count", "unlock"}

\* the thread of get / has_image is between taking and releasing the mutex
InRead == ib_get.pc \in {"g_check", "g_copy", "g_unlock", "h_return"}

\* C24: the buffer is thread-safe: while one thread is inside the locked
\* part of push, get or has_image no other is, so every operation takes
\* effect atomically; the image a successful get has copied is, whole, the
\* image of the push that was the (i+1)-th most recent one when get took the
\* lock; and has_image answers from the count it read under the lock
C24_ThreadSafe ==
    /\ ~(InPush /\ InRead)
    /\ ib_get.pc = "g_unlock" =>
           /\ ib_get.out = ib_get.due
           /\ \E k \in 1 .. Len(pushes) : ib_get.out = pushes[k]
    /\ ib_get.pc = "h_return" => ~InPush /\ image_count_ = Held

\* get has copied an image while a push that came after it waits for the
\* mutex, and the buffer has wrapped around
C24_Witness ==
    /\ ib_get.pc = "g_unlock"
    /\ ib_get.at = 1
    /\ ib_get.out = ib_get.due
    /\ ib_push.pc = "lock"
    /\ Len(pushes) > BUFFER_SIZE

\* C25: every projection mode can be selected through its token:
\* parse_projection_type maps "equirectangular" to the equirectangular mode,
\* "rectilinear" to rectilinear, "cylindrical" to cylindrical and
\* "fisheye_undistort" to fisheye-undistort
C25_EveryModeSelectable ==
    call.op = "parse" =>
        /\ call.arg.projection_str = "equirectangular" =>
               call.ret.projection = "EQUIRECTANGULAR"
        /\ call.arg.projection_str = "rectilinear" =>
               call.ret.projection = "RECTILINEAR"
        /\ call.arg.projection_str = "cylindrical" =>
               call.ret.projection = "CYLINDRICAL"
        /\ call.arg.projection_str = "fisheye_undistort" =>
               call.ret.projection = "FISHEYE_UNDISTORT"

\* C21: for all four projection modes and every valid configuration, every
\* entry of the table is the sentinel pair (-1, -1) or a pair of finite
\* numbers: no entry is NaN or infinite
C21_SentinelOrFinite ==
    (Installed /\ Valid(config_)) =>
        \A i \in 0 .. PixelCount(config_) - 1 :
            Cell(i) = Sentinel \/ (IsFinite(Cell(i)[1]) /\ IsFinite(Cell(i)[2]))

\* C26: stop terminates: once stop has found the server running, the
\* server loop sees running_ = false also when no request ever arrives, the
\* server thread exits, and stop returns with running_ false and the thread
\* joined
C26_StopTerminates ==
    (f_stop = "clear") ~> (f_stop = "idle" /\ ~running_ /\ server_thread_ = "joined")

\* the JPEG stored last, none before the first store
LatestStored == IF stored = <<>> THEN <<>> ELSE stored[Len(stored)]

\* how many buffers have had their timestamp set
Stamped == Len(handed) + (IF r_need.pc = "emit" THEN 1 ELSE 0)

\* C29: delivery is latest-frame with monotonic timestamps: the member
\* holds, whole, the frame of the last successful push_frame, so a push_frame
\* that returns false leaves it alone; the bytes a callback has copied are
\* that frame as it was when the callback took the lock, and a callback
\* returns without a buffer only when no frame was stored; the k-th buffer
\* handed out carries such a frame and the timestamp (k - 1) * duration with
\* duration = GST_SECOND / fps; a callback that runs before any frame was
\* stored hands out nothing and leaves the timestamp at 0
C29_LatestFrameMonotonic ==
    /\ current_jpeg_ = LatestStored
    /\ r_need.pc = "check" => r_need.due = current_jpeg_
    /\ r_need.pc \in {"flag", "stamp", "emit"} =>
           r_need.out = r_need.due /\ r_need.due # <<>>
    /\ \A k \in 1 .. Len(handed) :
           /\ handed[k].data = handed[k].due
           /\ \E j \in 1 .. Len(stored) : handed[k].data = stored[j]
           /\ handed[k].duration = GST_SECOND \div rtsp_fps
           /\ handed[k].pts = (k - 1) * (GST_SECOND \div rtsp_fps)
    /\ timestamp_ = Stamped * (GST_SECOND \div rtsp_fps)
    /\ stored = <<>> => (handed = <<>> /\ timestamp_ = 0)

\* two buffers have been handed out that carry the same frame, a third
\* carries a frame pushed in between, and a push_frame on the stopped server
\* has returned false
C29_Witness ==
    /\ Len(handed) = 3
    /\ handed[1].data = handed[2].data
    /\ handed[3].data # handed[2].data
    /\ handed[3].pts = 2 * (GST_SECOND \div rtsp_fps)
    /\ call.op = "push_frame" /\ call.ret = "false"
    /\ ~rtsp_running_

\* where in the record the loop did e with buffer b
Events(e, b) == {i \in 1 .. Len(m_log) : m_log[i] = [event |-> e, buf |-> b]}

\* where in the record the loop asked the image provider for a frame
Asked == {i \in 1 .. Len(m_log) : m_log[i].event \in {"get", "none"}}

=============================================================================
